---- MODULE Spec2Model ----
(***************************************************************************)
(* MineNews snapshot server: the refresh pipeline of the snapshot          *)
(* generator (sort discovery, enrichment, AI validation with fallback,     *)
(* persistence) as a state machine of its asynchronous steps.              *)
(*                                                                         *)
(* JavaScript values are encoded as follows.                               *)
(*   null / undefined        None == << >>                                 *)
(*   a present value v       Some(v) == << v >>                            *)
(*   an object               a record; an absent property is a field that *)
(*                           is not in its DOMAIN (read with Get)          *)
(*   an array                a sequence                                    *)
(*   a Map                   a function whose DOMAIN is the key set        *)
(*   a string                a token; text that is trimmed or measured is *)
(*                           a record [body, len, pad, cut]                *)
(*   a Date                  whole minutes since 1970-01-01T00:00Z         *)
(***************************************************************************)
EXTENDS Integers, Sequences, FiniteSets, TLC

(* ------------------------------------------------------------------ *)
(* Bounds of the model                                                 *)
(* ------------------------------------------------------------------ *)

\* longest category list a get-sorts answer carries
MaxSorts == 2
\* longest item list a get-sort-content answer carries
MaxItems == 2
\* the same, in the specification of the whole pipeline
PipeMaxItems == 1
\* longest top-5 list handed to a stand-alone snapshot assembly
MaxTop == 2
\* longest articles array an AI answer carries
MaxAiArticles == 2
\* longest candidate list handed to a stand-alone enrichCandidates call
MaxCands == 3
\* largest favConcurrency handed to a stand-alone enrichCandidates call
MaxConc == 2
\* longest top5 list of a snapshot file the API server reads
MaxFileGames == 1

(* ------------------------------------------------------------------ *)
(* Program constants                                                   *)
(* ------------------------------------------------------------------ *)

ROBLOX_BATCH_LIMIT == 25
SORT_LIMIT == 30
TOP5_N == 5
TOP100_N == 100
FAV_CONC_TOP5 == 5
FAV_CONC_TOP100 == 4
KST_OFFSET_H == 9
HEADLINE_LIMIT == 3
SECTIONS_MIN == 3
SECTIONS_MAX == 4
DECK_MAX == 120
LEDE_MAX == 260
RECAP_MAX == 420
RATIO_SCALE == 1000000

(* ------------------------------------------------------------------ *)
(* JavaScript value helpers                                            *)
(* ------------------------------------------------------------------ *)

None == << >>
Some(v) == << v >>
Val(o) == o[1]

\* a ?? b
Coalesce(a, b) == IF a # None THEN a ELSE b

\* o?.f  (None when the property is absent)
Get(o, f) == IF f \in DOMAIN o THEN o[f] ELSE None

\* the object {}
EmptyObject == [empty |-> TRUE]

Min(a, b) == IF a < b THEN a ELSE b

\* arr.slice(0, n)
Take(s, n) == SubSeq(s, 1, Min(n, Len(s)))

\* Map.set(k, v)
MapSet(m, k, v) == [x \in (DOMAIN m) \cup {k} |-> IF x = k THEN v ELSE m[x]]

\* new Map()
EmptyMap == [x \in {} |-> None]

\* Map.get(k)  (None when the key is absent)
MapGet(m, k) == IF k \in DOMAIN m THEN m[k] ELSE None

\* all sequences over S of length lo..hi
SeqsOf(S, lo, hi) == UNION {[1..n -> S] : n \in lo..hi}

(* ------------------------------------------------------------------ *)
(* fetch helpers                                                       *)
(* ------------------------------------------------------------------ *)

\* an HTTP answer: res.ok, and the body text as "empty", "garbage" (not JSON)
\* or "json" carrying the parsed value
Resp(ok, text, json) == [ok |-> ok, text |-> text, json |-> json]
HttpFail == Resp(FALSE, "garbage", EmptyObject)
BadJson == Resp(TRUE, "garbage", EmptyObject)
EmptyBody == Resp(TRUE, "empty", EmptyObject)
Json(v) == Resp(TRUE, "json", v)

Thrown(msg) == [thrown |-> TRUE, error |-> msg, value |-> EmptyObject]
Returned(v) == [thrown |-> FALSE, error |-> "", value |-> v]

fetchJson(res) ==
  IF ~res.ok THEN Thrown("HTTP")
  ELSE IF res.text = "empty" THEN Returned(EmptyObject)
  ELSE IF res.text = "garbage" THEN Thrown("JSON parse failed")
  ELSE Returned(res.json)

\* the answers that make fetchJson throw
FailedResponses == {HttpFail, BadJson}

\* a JSON document that is itself an array is the record [array |-> Some(seq)]
extractSorts(payload) ==
  IF Get(payload, "sorts") # None THEN Val(payload.sorts)
  ELSE IF Get(payload, "data") # None THEN Val(payload.data)
  ELSE IF Get(payload, "array") # None THEN Val(payload.array)
  ELSE << >>

\* the first of items / content / games / experiences that is an array (an
\* empty array is truthy: it ends the || chain); << >> when none is
sectionItems(sec) ==
  IF Get(sec, "items") # None THEN Val(sec.items)
  ELSE IF Get(sec, "content") # None THEN Val(sec.content)
  ELSE IF Get(sec, "games") # None THEN Val(sec.games)
  ELSE IF Get(sec, "experiences") # None THEN Val(sec.experiences)
  ELSE << >>

RECURSIVE firstSectionItems(_, _)
firstSectionItems(sections, i) ==
  IF i > Len(sections) THEN << >>
  ELSE IF sectionItems(sections[i]) # << >> THEN sectionItems(sections[i])
  ELSE firstSectionItems(sections, i + 1)

extractItems(content) ==
  IF Get(content, "items") # None THEN Val(content.items)
  ELSE IF Get(content, "content") # None THEN Val(content.content)
  ELSE IF Get(content, "games") # None THEN Val(content.games)
  ELSE IF Get(content, "experiences") # None THEN Val(content.experiences)
  ELSE IF Get(content, "data") # None THEN Val(content.data)
  ELSE IF Get(content, "sections") # None THEN firstSectionItems(Val(content.sections), 1)
  ELSE << >>

\* String.toLowerCase on the identifiers the model uses
Lower(s) == IF s = "Filters" THEN "filters" ELSE s

isFiltersPayload(payload) ==
  \/ Lower(Coalesce(Get(payload, "contentType"), Some(""))[1]) = "filters"
  \/ Lower(Coalesce(Get(payload, "sortId"), Some(""))[1]) = "filters"
  \/ Get(payload, "filters") # None

pickUniverseId(it) ==
  Coalesce(Get(it, "universeId"), Coalesce(Get(it, "universeID"), Get(it, "id")))

RoundRatio_Truncated(u, denom) == (u * RATIO_SCALE) \div denom

\* Number(ratio.toFixed(6)) in millionths, rounding half up
RoundRatio(u, denom) == (2 * u * RATIO_SCALE + denom) \div (2 * denom)

\* likeRatio(up, down) followed by the rounding of enrichCandidates
likeRatio(up, down) ==
  LET u == Coalesce(up, Some(0))[1]
      d == Coalesce(down, Some(0))[1]
      denom == u + d
  IN  IF denom > 0 THEN Some(RoundRatio(u, denom)) ELSE None

\* a text of len characters (after whitespace is collapsed and trimmed);
\* pad: it carries surrounding or repeated whitespace; cut: it ends in the
\* ellipsis clampDesc appends
Text(body, len, pad) == [body |-> body, len |-> len, pad |-> pad, cut |-> FALSE]

\* String.trim
Trim(t) == [t EXCEPT !.pad = FALSE]

clampDesc_NeverNull(s, max) ==
  IF s = None THEN Some(Text("", 0, FALSE))
  ELSE LET t == Trim(Val(s))
       IN  IF t.len > max
           THEN Some([t EXCEPT !.len = max + 1, !.cut = TRUE])
           ELSE Some(t)

\* !s holds for null and for the empty string, not for blanks only
clampDesc(s, max) ==
  IF s = None \/ (Val(s).len = 0 /\ ~Val(s).pad) THEN None
  ELSE LET t == Trim(Val(s))
       IN  IF t.len > max
           THEN Some([t EXCEPT !.len = max + 1, !.cut = TRUE])
           ELSE Some(t)

RECURSIVE chunkFrom(_, _, _)
chunkFrom(arr, size, i) ==
  IF i > Len(arr) THEN << >>
  ELSE << SubSeq(arr, i, Min(i + size - 1, Len(arr))) >> \o chunkFrom(arr, size, i + size)

\* chunk that hands the whole array over as one chunk
chunk_Whole(arr, size) == IF arr = << >> THEN << >> ELSE << arr >>

\* chunk(arr, size)
chunk(arr, size) == chunkFrom(arr, size, 1)

(* ------------------------------------------------------------------ *)
(* Dates: kstDateKey                                                   *)
(* ------------------------------------------------------------------ *)

\* the civil date <<year, month, day>> of day number z (days since 1970-01-01):
\* Date.getUTCFullYear / getUTCMonth + 1 / getUTCDate
CivilFromDays(z0) ==
  LET z == z0 + 719468
      era == z \div 146097
      doe == z - era * 146097
      yoe == (doe - doe \div 1460 + doe \div 36524 - doe \div 146096) \div 365
      doy == doe - (365 * yoe + yoe \div 4 - yoe \div 100)
      mp == (5 * doy + 2) \div 153
      d == doy - (153 * mp + 2) \div 5 + 1
      m == IF mp < 10 THEN mp + 3 ELSE mp - 9
      y == yoe + era * 400 + (IF m <= 2 THEN 1 ELSE 0)
  IN  << y, m, d >>

DayMinutes == 24 * 60

kstDateKey_Utc(d) == CivilFromDays(d \div DayMinutes)

\* YYYY-MM-DD of the date shifted by nine hours
kstDateKey(d) == CivilFromDays((d + KST_OFFSET_H * 60) \div DayMinutes)

\* days since 1970-01-01 of the civil date y-m-d (Date.parse of an ISO date)
DaysFromCivil(y0, m, d) ==
  LET y == IF m <= 2 THEN y0 - 1 ELSE y0
      era == y \div 400
      yoe == y - era * 400
      mp == IF m > 2 THEN m - 3 ELSE m + 9
      doy == (153 * mp + 2) \div 5 + d - 1
      doe == yoe * 365 + yoe \div 4 - yoe \div 100 + doy
  IN  era * 146097 + doe - 719468

\* the instant y-m-dTh:mi:00.000Z
Instant(y, m, d, h, mi) == DaysFromCivil(y, m, d) * DayMinutes + h * 60 + mi

\* Date.toISOString and new Date(iso): the civil fields of the instant
toISOString(t) ==
  [date |-> CivilFromDays(t \div DayMinutes), hour |-> (t % DayMinutes) \div 60, minute |-> t % 60]
parseISO(iso) == Instant(iso.date[1], iso.date[2], iso.date[3], iso.hour, iso.minute)

(* ------------------------------------------------------------------ *)
(* Explore sorting: findSortWithItems                                  *)
(* ------------------------------------------------------------------ *)

\* the keywords a (lower-cased) category name contains
NameKeywords(n) ==
  CASE n = "Popular" -> {"popular"}
    [] n = "Trending" -> {"trending"}
    [] n = "Top Rated" -> {"top"}
    [] n = "Top Popular" -> {"top", "popular"}
    [] n = "Top Trending" -> {"top", "trending"}
    [] OTHER -> {}

sortNameOf(s) == Coalesce(Get(s, "name"), Coalesce(Get(s, "sortDisplayName"), Some("(unknown)")))[1]

sortIdOf(s) == Coalesce(Get(s, "sortId"), Get(s, "id"))

score(s) ==
  LET n == Coalesce(Get(s, "name"), Coalesce(Get(s, "sortDisplayName"), Some("")))[1]
  IN  IF "popular" \in NameKeywords(n) THEN 100
      ELSE IF "trending" \in NameKeywords(n) THEN 90
      ELSE IF "top" \in NameKeywords(n) THEN 80
      ELSE 10

\* compareSorts the wrong way round: the lowest score first
compareSorts_Ascending(a, b) == score(a) - score(b)

\* the comparator handed to Array.sort: negative when a goes before b
compareSorts(a, b) == score(b) - score(a)

\* Array.sort is stable: x goes behind every element it does not precede
RECURSIVE insertSorted(_, _)
insertSorted(sorted, x) ==
  IF sorted = << >> THEN << x >>
  ELSE IF compareSorts(x, sorted[1]) < 0 THEN << x >> \o sorted
  ELSE << sorted[1] >> \o insertSorted(Tail(sorted), x)

RECURSIVE sortSorts(_)
sortSorts(s) ==
  IF s = << >> THEN << >>
  ELSE insertSorted(sortSorts(SubSeq(s, 1, Len(s) - 1)), s[Len(s)])

notFiltersSort(s) == Lower(Coalesce(sortIdOf(s), Some(""))[1]) # "filters"

sortCandidates_NoLimit(sorts) == sortSorts(SelectSeq(sorts, notFiltersSort))

sortCandidates(sorts) == Take(sortSorts(SelectSeq(sorts, notFiltersSort)), SORT_LIMIT)

\* !sortId
noSortId(s) == sortIdOf(s) = None \/ Val(sortIdOf(s)) = ""

\* the next index from k on whose category has a sortId (the loop's continue),
\* or 0 when the loop runs out
RECURSIVE nextCandidate(_, _)
nextCandidate(candidates, k) ==
  IF k > Len(candidates) THEN 0
  ELSE IF noSortId(candidates[k]) THEN nextCandidate(candidates, k + 1)
  ELSE k

\* what one get-sort-content answer yields: the item list, or << >> when the
\* category is skipped (the call threw, a filters payload, no items)
contentItems(res) ==
  LET c == fetchJson(res)
  IN  IF c.thrown THEN << >>
      ELSE IF isFiltersPayload(c.value) THEN << >>
      ELSE extractItems(c.value)

(* ------------------------------------------------------------------ *)
(* Candidates and enrichment                                           *)
(* ------------------------------------------------------------------ *)

toCandidate(it) ==
  [universeId |-> pickUniverseId(it),
   exploreName |-> Coalesce(Get(it, "name"), Get(it, "title")),
   explorePlaying |-> Coalesce(Get(it, "playing"), Get(it, "playerCount")),
   exploreVisits |-> Get(it, "visits")]

\* .filter((x) => x.universeId): null and 0 are dropped
hasUniverseId(x) == x.universeId # None /\ Val(x.universeId) # 0

\* the candidates of an item list; a kept candidate's universeId is stored bare
topCandidatesOf(items) ==
  LET mapped == [i \in 1..Len(items) |-> toCandidate(items[i])]
      kept == SelectSeq(mapped, hasUniverseId)
  IN  [i \in 1..Len(kept) |-> [kept[i] EXCEPT !.universeId = Val(kept[i].universeId)]]

universeIdsOf(candidates) == [i \in 1..Len(candidates) |-> candidates[i].universeId]

\* for (const g of list) out.set(g.id, g)
RECURSIVE setAll(_, _)
setAll(map, list) ==
  IF list = << >> THEN map
  ELSE setAll(MapSet(map, list[1].id, list[1]), Tail(list))

\* Array.isArray(payload?.data) ? payload.data : []
dataList(payload) == IF Get(payload, "data") # None THEN Val(payload.data) ELSE << >>

\* fav?.favoritesCount ?? fav?.count ?? null
favoritesOf(fav) == Coalesce(Get(fav, "favoritesCount"), Get(fav, "count"))

\* d?.f for a Map.get result d
Opt(d, f) == IF d = None THEN None ELSE Get(Val(d), f)

\* the record enrichCandidates builds for candidate x
enrichOne(x, detailsMap, votesMap, favMap) ==
  LET d == IF x.universeId \in DOMAIN detailsMap THEN Some(detailsMap[x.universeId]) ELSE None
      v == IF x.universeId \in DOMAIN votesMap THEN Some(votesMap[x.universeId]) ELSE None
      fav == MapGet(favMap, x.universeId)
      up == Opt(v, "upVotes")
      down == Opt(v, "downVotes")
  IN  [universeId |-> x.universeId,
       placeId |-> Opt(d, "rootPlaceId"),
       name |-> Coalesce(Opt(d, "name"), Coalesce(x.exploreName, Some(Text("(no name)", 9, FALSE))))[1],
       description |-> Opt(d, "description"),
       playing |-> Coalesce(Opt(d, "playing"), x.explorePlaying),
       visits |-> Coalesce(Opt(d, "visits"), x.exploreVisits),
       favorites |-> fav,
       upVotes |-> up,
       downVotes |-> down,
       likeRatio |-> likeRatio(up, down),
       updated |-> Opt(d, "updated"),
       maxPlayers |-> Opt(d, "maxPlayers"),
       genre |-> Opt(d, "genre")]

\* enrichAll driven by the details Map instead of the candidate list: a game
\* the details answer left out gets no record
enrichAll_FromDetails(candidates, detailsMap, votesMap, favMap) ==
  LET known(x) == x.universeId \in DOMAIN detailsMap
      kept == SelectSeq(candidates, known)
  IN  [i \in 1..Len(kept) |-> enrichOne(kept[i], detailsMap, votesMap, favMap)]

\* candidates.map(...)
enrichAll(candidates, detailsMap, votesMap, favMap) ==
  [i \in 1..Len(candidates) |-> enrichOne(candidates[i], detailsMap, votesMap, favMap)]

(* ------------------------------------------------------------------ *)
(* OpenAI summary and its validation                                   *)
(* ------------------------------------------------------------------ *)

\* a response text: "empty", "garbage" (not JSON) or "json" with its value
RawText(kind, json) == [kind |-> kind, json |-> json]
NoText == RawText("empty", EmptyObject)

RECURSIVE firstOutputText(_, _)
firstOutputText(content, i) ==
  IF i > Len(content) THEN NoText
  ELSE IF content[i].type \in {"output_text", "text"} /\ Get(content[i], "text") # None
       THEN Val(content[i].text)
       ELSE firstOutputText(content, i + 1)

RECURSIVE scanOutput(_, _)
scanOutput(output, i) ==
  IF i > Len(output) THEN NoText
  ELSE IF Get(output[i], "content") = None THEN scanOutput(output, i + 1)
  ELSE IF firstOutputText(Val(output[i].content), 1) # NoText
       THEN firstOutputText(Val(output[i].content), 1)
       ELSE scanOutput(output, i + 1)

extractTextFromResponse(res) ==
  IF Get(res, "output_text") # None /\ Val(res.output_text).kind # "empty"
  THEN Val(res.output_text)
  ELSE IF Get(res, "output") = None THEN NoText
  ELSE scanOutput(Val(res.output), 1)

parseSummary_NoArrayCheck(res) ==
  LET raw == extractTextFromResponse(res)
  IN  IF raw.kind = "empty" THEN None
      ELSE IF raw.kind = "garbage" THEN None
      ELSE Some(raw.json)

\* summarizeTop5WithOpenAI after the create call resolved with res:
\* the parsed payload, or None
parseSummary(res) ==
  LET raw == extractTextFromResponse(res)
  IN  IF raw.kind = "empty" THEN None
      ELSE IF raw.kind = "garbage" THEN None
      ELSE IF Get(raw.json, "articles") = None THEN None
      ELSE Some(raw.json)

\* Number(a?.universeId): a number, a numeric string, or NaN (None)
toNumber(raw) ==
  IF raw = None THEN None
  ELSE IF Val(raw).t \in {"num", "str"} THEN Some(Val(raw).n)
  ELSE None

isString(o) == o # None

sectionOk(sec) == isString(Get(sec, "heading")) /\ isString(Get(sec, "text"))

articleOk(a) ==
  /\ isString(Get(a, "gameName"))
  /\ isString(Get(a, "title"))
  /\ isString(Get(a, "deck"))
  /\ isString(Get(a, "lede"))
  /\ Get(a, "sections") # None
  /\ Len(Val(a.sections)) >= SECTIONS_MIN
  /\ Len(Val(a.sections)) <= SECTIONS_MAX
  /\ \A i \in 1..Len(Val(a.sections)) : sectionOk(Val(a.sections)[i])
  /\ isString(Get(a, "whyNow"))
  /\ Get(a, "numbers") # None
  /\ isString(Get(a, "whatToDo"))

nonEmptyText(t) == t.len > 0

trimAll(texts) == [i \in 1..Len(texts) |-> Trim(texts[i])]

cleanArticle(id, a) ==
  [universeId |-> id,
   gameName |-> Trim(Val(a.gameName)),
   title |-> Trim(Val(a.title)),
   deck |-> Trim(Val(a.deck)),
   lede |-> Trim(Val(a.lede)),
   sections |-> [i \in 1..Len(Val(a.sections)) |->
                   [heading |-> Trim(Val(Val(a.sections)[i].heading)),
                    text |-> Trim(Val(Val(a.sections)[i].text))]],
   whyNow |-> Trim(Val(a.whyNow)),
   numbers |-> SelectSeq(trimAll(Val(a.numbers)), nonEmptyText),
   whatToDo |-> Trim(Val(a.whatToDo))]

\* the loop over ai.articles: the Map of the articles that pass every check
RECURSIVE collectArticles(_, _)
collectArticles(map, articles) ==
  IF articles = << >> THEN map
  ELSE LET a == articles[1]
           id == toNumber(Get(a, "universeId"))
       IN  IF id = None \/ ~articleOk(a)
           THEN collectArticles(map, Tail(articles))
           ELSE collectArticles(MapSet(map, Val(id), cleanArticle(Val(id), a)), Tail(articles))

\* allCovered with some() in place of every(): one covered id is enough
allCovered_Some(universeIds, map) == \E i \in 1..Len(universeIds) : universeIds[i] \in DOMAIN map

\* universeIds.every((id) => map.has(id))
allCovered(universeIds, map) == \A i \in 1..Len(universeIds) : universeIds[i] \in DOMAIN map

cleanHeadlines(ai) ==
  IF Get(ai, "headlines") # None
  THEN Take(SelectSeq(trimAll(Val(ai.headlines)), nonEmptyText), HEADLINE_LIMIT)
  ELSE << >>

\* None, or Some([headlines, articleMap])
validateAiPayload(ai, universeIds) ==
  IF ai = None THEN None
  ELSE LET articles == IF Get(Val(ai), "articles") # None THEN Val(Val(ai).articles) ELSE << >>
           map == collectArticles(EmptyMap, articles)
       IN  IF articles = << >> THEN None
           ELSE IF ~allCovered(universeIds, map) THEN None
           ELSE Some([headlines |-> cleanHeadlines(Val(ai)), articleMap |-> map])

(* ------------------------------------------------------------------ *)
(* Fallback articles and the snapshot                                  *)
(* ------------------------------------------------------------------ *)

\* a string literal of the source
Literal(body) == Text(body, 1, FALSE)
\* a template literal of the source with its interpolated values
Template(body, args) == [body |-> body, len |-> 1, pad |-> FALSE, cut |-> FALSE, args |-> args]

NoDescription == Literal("no-description")

fallbackArticle(g) ==
  [universeId |-> g.universeId,
   gameName |-> g.name,
   title |-> g.name,
   deck |-> Coalesce(clampDesc(g.description, DECK_MAX), Some(NoDescription))[1],
   lede |-> Coalesce(clampDesc(g.description, LEDE_MAX), Some(NoDescription))[1],
   sections |-> <<
     [heading |-> Literal("what-is-it"),
      text |-> Coalesce(clampDesc(g.description, RECAP_MAX), Some(NoDescription))[1]],
     [heading |-> Literal("play-point"), text |-> Literal("play-point-text")],
     [heading |-> Literal("metrics"),
      text |-> Template("metrics-text", << g.playing, g.visits, g.favorites, g.likeRatio >>)] >>,
   whyNow |-> Literal("fallback-why-now"),
   numbers |-> <<
     Template("playing", << g.playing >>),
     Template("visits", << g.visits >>),
     Template("favorites", << g.favorites >>),
     Template("likeRatio", << g.likeRatio >>),
     Template("genre", << g.genre >>),
     Template("maxPlayers", << g.maxPlayers >>),
     Template("updated", << g.updated >>) >>,
   whatToDo |-> Literal("fallback-what-to-do")]

\* the article as it is, without the placeId of the game
withPlaceId_Omitted(base, g) == base

\* { ...base, placeId: g.placeId ?? null }
withPlaceId(base, g) ==
  [f \in (DOMAIN base) \cup {"placeId"} |-> IF f = "placeId" THEN g.placeId ELSE base[f]]

articleFor(g, articleMap) ==
  withPlaceId(IF g.universeId \in DOMAIN articleMap
              THEN articleMap[g.universeId]
              ELSE fallbackArticle(g), g)

\* the object generateSnapshot returns, given the AI payload (or None)
buildSnapshot(picked, top5, top100, aiRaw, now) ==
  LET validated == validateAiPayload(aiRaw, [i \in 1..Len(top5) |-> top5[i].universeId])
      articleMap == IF validated # None THEN Val(validated).articleMap ELSE EmptyMap
      headlines == IF validated # None THEN Val(validated).headlines ELSE << >>
  IN  [generatedAt |-> toISOString(now),
       meta |-> [sortName |-> picked.sortName, sortId |-> picked.sortId],
       headlines |-> headlines,
       articles |-> [i \in 1..Len(top5) |-> articleFor(top5[i], articleMap)],
       top5 |-> top5,
       top100 |-> top100]

(* ------------------------------------------------------------------ *)
(* Snapshot files                                                      *)
(* ------------------------------------------------------------------ *)

LatestPath == << "latest.json" >>

DatedPath_Monthly(dateKey) == << "roblox_top5", dateKey[1], dateKey[2], 1 >>

\* path.join(dir, `roblox_top5_${dateKey}.json`)
DatedPath(dateKey) == << "roblox_top5", dateKey[1], dateKey[2], dateKey[3] >>

\* JSON.stringify(payload, null, 2); complete is FALSE for what a failed
\* write left behind (a truncated prefix)
Serialized(payload) == [complete |-> TRUE, json |-> payload]
Truncated(payload) == [complete |-> FALSE, json |-> payload]

\* writeFile(path, content) that succeeded
WriteFile(d, path, content) == MapSet(d, path, content)

(* ------------------------------------------------------------------ *)
(* What the outside world may answer                                   *)
(* ------------------------------------------------------------------ *)

Cat(id, name) == [sortId |-> Some(id), name |-> Some(name)]

\* categories of a get-sorts answer: by name class, one under id and
\* sortDisplayName, one the filters entry, one without any id
CatMenu ==
  {Cat("s1", "Popular"), Cat("s2", "Trending"), Cat("s3", "Top Rated"),
   Cat("s4", "Action"), Cat("Filters", "Popular"),
   [id |-> Some("s5"), sortDisplayName |-> Some("Top Popular")],
   [name |-> Some("Popular")]}

\* the categories the whole-pipeline specification draws from
PipeCatMenu == {Cat("s1", "Popular")}

SortsAnswers(cats) ==
  FailedResponses \cup {EmptyBody}
    \cup {Json([sorts |-> Some(l)]) : l \in SeqsOf(cats, 0, MaxSorts)}
    \cup {Json([data |-> Some(l)]) : l \in SeqsOf(cats, 1, 1)}
    \cup {Json([array |-> Some(l)]) : l \in SeqsOf(cats, 1, 1)}

ItemA(id) ==
  [universeId |-> Some(id), name |-> Some(Text("Explore name", 12, FALSE)),
   playing |-> Some(50), visits |-> Some(500)]
ItemB(id) == [id |-> Some(id), playerCount |-> Some(7)]
ItemNoId == [name |-> Some(Text("Nameless", 8, FALSE))]
ItemZero == [universeId |-> Some(0)]

ItemMenu == {ItemA(1), ItemB(2), ItemNoId, ItemZero}
PipeItemMenu == {ItemA(1), ItemNoId}

ContentAnswers(items, maxLen) ==
  FailedResponses \cup {EmptyBody}
    \cup {Json([items |-> Some(l)]) : l \in SeqsOf(items, 0, maxLen)}
    \cup {Json([contentType |-> Some("Filters"), items |-> Some(l)]) : l \in SeqsOf(items, 1, 1)}
    \cup {Json([items |-> Some(<< >>), games |-> Some(l)]) : l \in SeqsOf(items, 1, 1)}
    \cup {Json([games |-> Some(l)]) : l \in SeqsOf(items, 1, 1)}
    \cup {Json([sections |-> Some(<< [items |-> Some(<< >>)], [games |-> Some(l)] >>)]) :
            l \in SeqsOf(items, 1, 1)}

\* the games?universeIds= record of a game: odd ids carry every field, even
\* ids only the id
DetailOf(id) ==
  IF id % 2 = 1
  THEN [id |-> id, rootPlaceId |-> Some(100 + id),
        name |-> Some(Text("Game", 4, FALSE)),
        description |-> Some(Text("About the game", 300, TRUE)),
        playing |-> Some(120), visits |-> Some(1000),
        updated |-> Some("2024-01-01"), maxPlayers |-> Some(8), genre |-> Some("All")]
  ELSE [id |-> id]

VoteOf(id) ==
  IF id % 2 = 1 THEN [id |-> id, upVotes |-> Some(3), downVotes |-> Some(1)]
  ELSE [id |-> id, upVotes |-> Some(0), downVotes |-> Some(0)]

Reverse(s) == [i \in 1..Len(s) |-> s[Len(s) + 1 - i]]

\* the data arrays a batch answer may carry for the ids asked: all of them,
\* in either order, all but the first, or none
DetailsOf(ids) == [i \in 1..Len(ids) |-> DetailOf(ids[i])]
VotesOf(ids) == [i \in 1..Len(ids) |-> VoteOf(ids[i])]

\* the answers a batch request may get, all being the records of the ids it
\* asks for
DataLists(all) == {all, Reverse(all), Tail(all), << >>}

BatchAnswers(all) ==
  FailedResponses \cup {EmptyBody} \cup {Json([data |-> Some(l)]) : l \in DataLists(all)}

\* the batch answers of the whole-pipeline specification
PipeBatchAnswers(all) == {HttpFail, Json([data |-> Some(all)])}

FavAnswers ==
  FailedResponses \cup {EmptyBody, Json([favoritesCount |-> Some(40)]), Json([count |-> Some(0)])}

PipeFavAnswers == {BadJson, Json([favoritesCount |-> Some(40)])}

AiText(body) == Text(body, 20, TRUE)
Num(id) == [t |-> "num", n |-> id]
Str(id) == [t |-> "str", n |-> id]
NotANumber == [t |-> "nan", n |-> 0]

AiSections(n) == [i \in 1..n |-> [heading |-> Some(AiText("heading")), text |-> Some(AiText("text"))]]

GoodArticle(idRaw, n) ==
  [universeId |-> Some(idRaw), gameName |-> Some(AiText("ai-name")),
   title |-> Some(AiText("ai-title")), deck |-> Some(AiText("ai-deck")),
   lede |-> Some(AiText("ai-lede")), sections |-> Some(AiSections(n)),
   whyNow |-> Some(AiText("ai-why-now")),
   numbers |-> Some(<< AiText("ai-number"), Text("", 0, TRUE) >>),
   whatToDo |-> Some(AiText("ai-what-to-do"))]

\* an article without the property f
Without(a, f) == [g \in (DOMAIN a) \ {f} |-> a[g]]

BadSectionArticle(idRaw) ==
  [GoodArticle(idRaw, 3) EXCEPT
     !.sections = Some(<< AiSections(1)[1], [heading |-> Some(AiText("heading"))], AiSections(1)[1] >>)]

\* the articles an AI answer may carry about the ids
AiArticleMenu(ids) ==
  UNION {{GoodArticle(Num(i), 3), GoodArticle(Str(i), 4), GoodArticle(Num(i), 2),
          GoodArticle(Num(i), 5), Without(GoodArticle(Num(i), 3), "title"),
          Without(GoodArticle(Num(i), 4), "numbers"), BadSectionArticle(Num(i))} : i \in ids}
    \cup {GoodArticle(NotANumber, 3), Without(GoodArticle(Num(1), 3), "universeId")}

AiHeadlineMenu ==
  {<< >>,
   << AiText("h1"), Text("", 0, TRUE), AiText("h2"), AiText("h3"), AiText("h4") >>}

AiPayloads(ids) ==
  {[articles |-> Some(l)] : l \in SeqsOf(AiArticleMenu(ids), 0, MaxAiArticles)}
    \cup {[articles |-> Some(l), headlines |-> Some(h)] :
            l \in SeqsOf(AiArticleMenu(ids), 1, MaxAiArticles), h \in AiHeadlineMenu}
    \cup {[headlines |-> Some(h)] : h \in AiHeadlineMenu}

\* how the responses.create call ends: it rejects, or it resolves with a
\* response object
Rejected == [rejected |-> TRUE, res |-> EmptyObject]
Resolved(res) == [rejected |-> FALSE, res |-> res]

AiOutcomes(ids) ==
  {Rejected, Resolved(EmptyObject),
   Resolved([output_text |-> Some(RawText("garbage", EmptyObject))]),
   Resolved([output |-> Some(<< [id |-> "reasoning"],
                               [content |-> Some(<< [type |-> "refusal"],
                                                    [type |-> "output_text",
                                                     text |-> Some(RawText("json",
                                                       [articles |-> Some(<< GoodArticle(Num(1), 3) >>)]))] >>)] >>)])}
    \cup {Resolved([output_text |-> Some(RawText("json", p))]) : p \in AiPayloads(ids)}

\* what the whole-pipeline specification lets the AI call end in
PipeAiOutcomes ==
  {Rejected, Resolved(EmptyObject),
   Resolved([output_text |-> Some(RawText("json", [articles |-> Some(<< GoodArticle(Num(1), 3) >>)]))]),
   Resolved([output_text |-> Some(RawText("json", [articles |-> Some(<< GoodArticle(Num(1), 5) >>)]))])}

\* the process boots on Monday 2024-01-08 at 00:00 in Seoul; the schedule
\* ("5 0 * * 1", Asia/Seoul) ticks five minutes later
BootTime == Instant(2024, 1, 7, 15, 0)
TickTimes == {Instant(2024, 1, 7, 15, 5)}

(* ------------------------------------------------------------------ *)
(* State                                                               *)
(* ------------------------------------------------------------------ *)

VARIABLES
  cachedSnapshot,   \* let cachedSnapshot
  lastUpdated,      \* let lastUpdated
  lastError,        \* let lastError
  disk,             \* the files of public/snapshots: path -> content
  dirExists,        \* public/snapshots exists
  clock,            \* the current instant
  booted,           \* the boot call of refreshSnapshot was made
  cronRegistered,   \* cron.schedule was called
  run,              \* the activations of refreshSnapshot: frame -> its locals
  thumbCache,       \* const thumbCache = new Map() of the snapshot API server
  req               \* the call outside refreshSnapshot being served, if any

vars == << cachedSnapshot, lastUpdated, lastError, disk, dirExists, clock,
           booted, cronRegistered, run, thumbCache, req >>

shared == << cachedSnapshot, lastUpdated, lastError, disk, dirExists, clock,
             booted, cronRegistered, thumbCache, req >>

Frames == {1, 2}

\* one enrichCandidates call: its arguments, the two batch loops (the chunk
\* whose request is in flight, the Map built so far) and the favorites pool
\* (favI is the shared index i, fly the positions whose request is in flight;
\* favThrown is history: the positions whose request threw)
IdleEnrich ==
  [phase |-> "none", cands |-> << >>, conc |-> 0,
   dState |-> "done", dChunk |-> 0, dMap |-> EmptyMap,
   vState |-> "done", vChunk |-> 0, vMap |-> EmptyMap,
   favI |-> 0, fly |-> {}, favMap |-> EmptyMap, favThrown |-> {}]

NoCalls == [sorts |-> 0, content |-> 0, enrich |-> 0, details |-> 0,
            votes |-> 0, favs |-> 0, ai |-> 0]

\* the locals of one activation. calls, events, sorts, tried and atStart are
\* history: the requests issued, what went wrong, the categories the
\* get-sorts answer listed, those whose content was fetched and the shared
\* state when the run began
IdleFrame ==
  [scope |-> "run", pc |-> "idle", candidates |-> << >>, k |-> 0,
   picked |-> None, topCandidates |-> << >>, top5 |-> << >>, top100 |-> << >>,
   en |-> IdleEnrich, raw |-> NoText, aiRaw |-> None, snap |-> None,
   calls |-> NoCalls, events |-> {}, sorts |-> << >>, tried |-> << >>, atStart |-> None]

SetRun(r, f) == run' = [run EXCEPT ![r] = f]

\* Throw with a catch block that swallows the exception: lastError keeps
\* the null the run began with
Throw_Swallowed(r, f, msg, event) ==
  IF f.scope = "run"
  THEN /\ SetRun(r, [f EXCEPT !.pc = "done", !.events = @ \cup {event}])
       /\ UNCHANGED shared
  ELSE /\ SetRun(r, [f EXCEPT !.pc = "thrown", !.events = @ \cup {event}])
       /\ UNCHANGED shared

\* an exception leaves the awaited call. Inside refreshSnapshot the catch
\* block records it; a call modelled on its own just ends thrown
Throw(r, f, msg, event) ==
  IF f.scope = "run"
  THEN /\ SetRun(r, [f EXCEPT !.pc = "done", !.events = @ \cup {event}])
       /\ lastError' = Some(msg)
       /\ UNCHANGED << cachedSnapshot, lastUpdated, disk, dirExists, clock, booted, cronRegistered, thumbCache, req >>
  ELSE /\ SetRun(r, [f EXCEPT !.pc = "thrown", !.events = @ \cup {event}])
       /\ UNCHANGED shared

(* ------------------------------------------------------------------ *)
(* enrichCandidates: the three lookups that run side by side           *)
(* ------------------------------------------------------------------ *)

\* workerCount without the limit: one worker for every id
workerCount_PerId(concurrency, n) == n

\* Math.min(concurrency, universeIds.length) workers
workerCount(concurrency, n) == Min(concurrency, n)

\* the call enrichCandidates(cands, {favConcurrency: conc}) up to its await:
\* each lookup has run to its first request
enrichCall(cands, conc, phase) ==
  LET ids == universeIdsOf(cands)
      chunks == chunk(ids, ROBLOX_BATCH_LIMIT)
      n == workerCount(conc, Len(ids))
  IN  [phase |-> phase, cands |-> cands, conc |-> conc,
       dState |-> IF chunks = << >> THEN "done" ELSE "wait",
       dChunk |-> IF chunks = << >> THEN 0 ELSE 1, dMap |-> EmptyMap,
       vState |-> IF chunks = << >> THEN "done" ELSE "wait",
       vChunk |-> IF chunks = << >> THEN 0 ELSE 1, vMap |-> EmptyMap,
       favI |-> n, fly |-> 1..n, favMap |-> EmptyMap, favThrown |-> {}]

\* the frame with enrichCandidates called and awaited
withEnrich(f, cands, conc, phase) ==
  LET en == enrichCall(cands, conc, phase)
  IN  [f EXCEPT !.pc = "enrich", !.en = en,
                !.calls.enrich = @ + 1,
                !.calls.details = @ + (IF en.dState = "wait" THEN 1 ELSE 0),
                !.calls.votes = @ + (IF en.vState = "wait" THEN 1 ELSE 0),
                !.calls.favs = @ + Cardinality(en.fly)]

enrichChunks(en) == chunk(universeIdsOf(en.cands), ROBLOX_BATCH_LIMIT)

\* batchFetchDetails resumed with the answer to the request in flight
detailsStep(en, res) ==
  LET p == fetchJson(res)
  IN  IF p.thrown THEN [en EXCEPT !.dState = "failed"]
      ELSE IF en.dChunk < Len(enrichChunks(en))
      THEN [en EXCEPT !.dMap = setAll(@, dataList(p.value)), !.dChunk = @ + 1]
      ELSE [en EXCEPT !.dMap = setAll(@, dataList(p.value)), !.dState = "done"]

\* batchFetchVotes resumed with the answer to the request in flight
votesStep(en, res) ==
  LET p == fetchJson(res)
  IN  IF p.thrown THEN [en EXCEPT !.vState = "failed"]
      ELSE IF en.vChunk < Len(enrichChunks(en))
      THEN [en EXCEPT !.vMap = setAll(@, dataList(p.value)), !.vChunk = @ + 1]
      ELSE [en EXCEPT !.vMap = setAll(@, dataList(p.value)), !.vState = "done"]

\* favStep whose worker passes over the position after the shared index
favStep_SkipsOne(en, pos, res) ==
  LET p == fetchJson(res)
      ids == universeIdsOf(en.cands)
      value == IF p.thrown THEN None ELSE favoritesOf(p.value)
      stored == [en EXCEPT !.favMap = MapSet(@, ids[pos], value),
                           !.favThrown = @ \cup (IF p.thrown THEN {pos} ELSE {})]
      taken == Min(en.favI + 2, Len(ids))
  IN  IF en.favI < Len(ids)
      THEN [stored EXCEPT !.favI = taken, !.fly = (@ \ {pos}) \cup {taken}]
      ELSE [stored EXCEPT !.fly = @ \ {pos}]

\* favStep with a catch block that stores 0 instead of null
favStep_ZeroOnThrow(en, pos, res) ==
  LET p == fetchJson(res)
      ids == universeIdsOf(en.cands)
      value == IF p.thrown THEN Some(0) ELSE favoritesOf(p.value)
      stored == [en EXCEPT !.favMap = MapSet(@, ids[pos], value),
                           !.favThrown = @ \cup (IF p.thrown THEN {pos} ELSE {})]
  IN  IF en.favI < Len(ids)
      THEN [stored EXCEPT !.favI = @ + 1, !.fly = (@ \ {pos}) \cup {en.favI + 1}]
      ELSE [stored EXCEPT !.fly = @ \ {pos}]

\* a worker resumed with the answer for position pos: it stores the count
\* (null when the call threw) and takes the next position, if any
favStep(en, pos, res) ==
  LET p == fetchJson(res)
      ids == universeIdsOf(en.cands)
      value == IF p.thrown THEN None ELSE favoritesOf(p.value)
      stored == [en EXCEPT !.favMap = MapSet(@, ids[pos], value),
                           !.favThrown = @ \cup (IF p.thrown THEN {pos} ELSE {})]
  IN  IF en.favI < Len(ids)
      THEN [stored EXCEPT !.favI = @ + 1, !.fly = (@ \ {pos}) \cup {en.favI + 1}]
      ELSE [stored EXCEPT !.fly = @ \ {pos}]

\* every promise handed to Promise.all has resolved
enrichSettled(en) == en.dState = "done" /\ en.vState = "done" /\ en.fly = {}

\* Promise.all was rejected already, or the call is over
enrichPending(f) == f.pc = "enrich"

DetailsResponse(r, res) ==
  /\ run[r].en.dState = "wait"
  /\ LET f == run[r]
         en2 == detailsStep(f.en, res)
         f2 == [f EXCEPT !.en = en2,
                         !.calls.details = @ + (IF en2.dChunk > f.en.dChunk THEN 1 ELSE 0)]
     IN  IF en2.dState = "failed" /\ enrichPending(f)
         THEN Throw(r, f2, fetchJson(res).error, "details")
         ELSE SetRun(r, f2) /\ UNCHANGED shared

VotesResponse(r, res) ==
  /\ run[r].en.vState = "wait"
  /\ LET f == run[r]
         en2 == votesStep(f.en, res)
         f2 == [f EXCEPT !.en = en2,
                         !.calls.votes = @ + (IF en2.vChunk > f.en.vChunk THEN 1 ELSE 0)]
     IN  IF en2.vState = "failed" /\ enrichPending(f)
         THEN Throw(r, f2, fetchJson(res).error, "votes")
         ELSE SetRun(r, f2) /\ UNCHANGED shared

FavResponse(r, pos, res) ==
  /\ pos \in run[r].en.fly
  /\ LET f == run[r]
         en2 == favStep(f.en, pos, res)
     IN  SetRun(r, [f EXCEPT !.en = en2,
                             !.calls.favs = @ + (en2.favI - f.en.favI),
                             !.events = @ \cup (IF fetchJson(res).thrown THEN {"favorites"} ELSE {})])
  /\ UNCHANGED shared

\* the records of the ids the batch request in flight asks for
detailsAsked(en) == DetailsOf(enrichChunks(en)[en.dChunk])
votesAsked(en) == VotesOf(enrichChunks(en)[en.vChunk])

\* the await of Promise.all resumed: enrichCandidates returns its records.
\* generateSnapshot goes on with the top-100 call, then with the AI request
EnrichReturn(r) ==
  /\ run[r].pc = "enrich"
  /\ enrichSettled(run[r].en)
  /\ LET f == run[r]
         result == enrichAll(f.en.cands, f.en.dMap, f.en.vMap, f.en.favMap)
     IN  IF f.en.phase = "top5"
         THEN SetRun(r, withEnrich([f EXCEPT !.top5 = result],
                                   Take(f.topCandidates, TOP100_N), FAV_CONC_TOP100, "top100"))
         ELSE IF f.en.phase = "top100"
         THEN SetRun(r, [f EXCEPT !.top100 = result, !.topCandidates = << >>,
                                  !.en = IdleEnrich, !.pc = "ai", !.calls.ai = @ + 1])
         ELSE SetRun(r, [f EXCEPT !.top5 = result, !.pc = "returned"])
  /\ UNCHANGED shared

(* ------------------------------------------------------------------ *)
(* findSortWithItems and the start of generateSnapshot                 *)
(* ------------------------------------------------------------------ *)

\* SortReturnsNull without the null check of generateSnapshot: the run goes
\* on to enrichCandidates with no game at all
SortReturnsNull_NoCheck(r, f) ==
  IF f.scope = "run"
  THEN SetRun(r, withEnrich(f, << >>, FAV_CONC_TOP5, "top5")) /\ UNCHANGED shared
  ELSE SetRun(r, [f EXCEPT !.pc = "returned"]) /\ UNCHANGED shared

\* findSortWithItems returns null: generateSnapshot throws
SortReturnsNull(r, f) ==
  IF f.scope = "run"
  THEN Throw(r, f, "no sort with items", "no-sort")
  ELSE SetRun(r, [f EXCEPT !.pc = "returned"]) /\ UNCHANGED shared

\* findSortWithItems returns {sortId, sortName, items}: generateSnapshot
\* maps the items to candidates and calls enrichCandidates for the top 5
SortReturns(r, f, cat, items) ==
  LET meta == [sortId |-> Val(sortIdOf(cat)), sortName |-> sortNameOf(cat)]
      top == topCandidatesOf(items)
  IN  IF f.scope = "run"
      THEN SetRun(r, withEnrich([f EXCEPT !.picked = Some(meta), !.topCandidates = top,
                                          !.candidates = << >>, !.k = 0,
                                          !.sorts = << >>, !.tried = << >>],
                                Take(top, TOP5_N), FAV_CONC_TOP5, "top5"))
           /\ UNCHANGED shared
      ELSE SetRun(r, [f EXCEPT !.picked = Some(meta), !.topCandidates = top, !.pc = "returned"])
           /\ UNCHANGED shared

GetSortsResponse(r, res) ==
  /\ run[r].pc = "sorts"
  /\ LET f == run[r]
         p == fetchJson(res)
         cands == sortCandidates(extractSorts(p.value))
         k == nextCandidate(cands, 1)
     IN  IF p.thrown THEN Throw(r, f, p.error, "get-sorts")
         ELSE IF k = 0
         THEN SortReturnsNull(r, [f EXCEPT !.candidates = cands, !.sorts = extractSorts(p.value)])
         ELSE SetRun(r, [f EXCEPT !.pc = "content", !.candidates = cands, !.k = k,
                                  !.sorts = extractSorts(p.value), !.calls.content = @ + 1])
              /\ UNCHANGED shared

ContentResponse(r, res) ==
  /\ run[r].pc = "content"
  /\ LET f == run[r]
         cat == f.candidates[f.k]
         items == contentItems(res)
         f1 == [f EXCEPT !.tried = Append(@, [cat |-> cat, usable |-> items # << >>])]
         k2 == nextCandidate(f.candidates, f.k + 1)
     IN  IF items # << >> THEN SortReturns(r, f1, cat, items)
         ELSE IF k2 = 0 THEN SortReturnsNull(r, f1)
         ELSE SetRun(r, [f1 EXCEPT !.k = k2, !.calls.content = @ + 1]) /\ UNCHANGED shared

(* ------------------------------------------------------------------ *)
(* The AI answer, refreshSnapshot and saveSnapshot                     *)
(* ------------------------------------------------------------------ *)

\* the ids the AI was asked about
aiIds(f) == {f.top5[i].universeId : i \in 1..Len(f.top5)}

\* responses.create settled. A rejection leaves summarizeTop5WithOpenAI and
\* generateSnapshot; otherwise generateSnapshot returns the snapshot and
\* refreshSnapshot caches it and calls saveSnapshot, which awaits mkdir
AiResponse(r, out) ==
  /\ run[r].pc = "ai"
  /\ LET f == run[r]
         snap == buildSnapshot(Val(f.picked), f.top5, f.top100, parseSummary(out.res), clock)
     IN  IF out.rejected THEN Throw(r, f, "AI request failed", "ai")
         ELSE IF f.scope = "run"
         THEN /\ SetRun(r, [f EXCEPT !.pc = "mkdir", !.snap = Some(snap),
                                     !.top5 = << >>, !.top100 = << >>])
              /\ cachedSnapshot' = Some(snap)
              /\ lastUpdated' = Some(toISOString(clock))
              /\ UNCHANGED << lastError, disk, dirExists, clock, booted, cronRegistered, thumbCache, req >>
         ELSE SetRun(r, [f EXCEPT !.pc = "returned", !.snap = Some(snap),
                                  !.raw = extractTextFromResponse(out.res),
                                  !.aiRaw = parseSummary(out.res)])
              /\ UNCHANGED shared

\* the dated path keyed by the UTC date of generatedAt
datedPathOf_Utc(payload) == DatedPath(payload.generatedAt.date)

\* const dateKey = kstDateKey(new Date(payload.generatedAt))
datedPathOf(payload) == DatedPath(kstDateKey(parseISO(payload.generatedAt)))

\* mkdir settled
MkdirResult(r, ok) ==
  /\ run[r].pc = "mkdir"
  /\ IF ok
     THEN /\ SetRun(r, [run[r] EXCEPT !.pc = "writeDated"])
          /\ dirExists' = TRUE
          /\ UNCHANGED << cachedSnapshot, lastUpdated, lastError, disk, clock, booted, cronRegistered, thumbCache, req >>
     ELSE Throw(r, run[r], "mkdir failed", "mkdir")

\* what a writeFile leaves in the file: the whole content when it succeeds;
\* when it fails, the file as it was (the open failed) or a truncated prefix
\* (the write failed after the open truncated the file)
WriteOutcomes == {"written", "failed-open", "failed-write"}

fileAfter(d, path, payload, outcome) ==
  IF outcome = "written" THEN WriteFile(d, path, Serialized(payload))
  ELSE IF outcome = "failed-write" THEN WriteFile(d, path, Truncated(payload))
  ELSE d

\* the catch block of refreshSnapshot after a failed write
WriteFailed(r, f, path, outcome, event) ==
  /\ SetRun(r, [f EXCEPT !.pc = "done", !.events = @ \cup {event}])
  /\ lastError' = Some("write failed")
  /\ disk' = fileAfter(disk, path, Val(f.snap), outcome)
  /\ UNCHANGED << cachedSnapshot, lastUpdated, dirExists, clock, booted, cronRegistered, thumbCache, req >>

\* writeFile(datedPath, ...) settled
WriteDatedResult(r, outcome) ==
  /\ run[r].pc = "writeDated"
  /\ LET f == run[r]
         path == datedPathOf(Val(f.snap))
     IN  IF outcome = "written"
         THEN /\ SetRun(r, [f EXCEPT !.pc = "writeLatest"])
              /\ disk' = fileAfter(disk, path, Val(f.snap), outcome)
              /\ UNCHANGED << cachedSnapshot, lastUpdated, lastError, dirExists, clock,
                              booted, cronRegistered, thumbCache, req >>
         ELSE WriteFailed(r, f, path, outcome, "write-dated")

WriteLatestResult_Skipped(r, outcome) ==
  /\ run[r].pc = "writeLatest"
  /\ SetRun(r, [run[r] EXCEPT !.pc = "done"])
  /\ UNCHANGED shared

\* writeFile(latestPath, ...) settled: saveSnapshot returns and the run ends
WriteLatestResult(r, outcome) ==
  /\ run[r].pc = "writeLatest"
  /\ LET f == run[r]
     IN  IF outcome = "written"
         THEN /\ SetRun(r, [f EXCEPT !.pc = "done"])
              /\ disk' = fileAfter(disk, LatestPath, Val(f.snap), outcome)
              /\ UNCHANGED << cachedSnapshot, lastUpdated, lastError, dirExists, clock,
                              booted, cronRegistered, thumbCache, req >>
         ELSE WriteFailed(r, f, LatestPath, outcome, "write-latest")

\* refreshSnapshot is called: lastError is cleared and generateSnapshot runs
\* to the get-sorts request
startRun ==
  [IdleFrame EXCEPT !.pc = "sorts", !.calls.sorts = 1,
                    !.atStart = Some([disk |-> disk, cachedSnapshot |-> cachedSnapshot,
                                      lastUpdated |-> lastUpdated])]

\* a frame no activation uses: nothing of an earlier run is still in flight
frameFree(f) ==
  f.pc \in {"idle", "done"} /\ f.en.dState # "wait" /\ f.en.vState # "wait" /\ f.en.fly = {}

\* await refreshSnapshot() at module load
Boot ==
  /\ ~booted
  /\ booted' = TRUE
  /\ SetRun(1, startRun)
  /\ lastError' = None
  /\ UNCHANGED << cachedSnapshot, lastUpdated, disk, dirExists, clock, cronRegistered, thumbCache, req >>

\* cron.schedule reached without awaiting the boot run
RegisterCron_NoAwait ==
  /\ booted /\ ~cronRegistered
  /\ cronRegistered' = TRUE
  /\ UNCHANGED << cachedSnapshot, lastUpdated, lastError, disk, dirExists, clock, booted, run, thumbCache, req >>

\* the boot run is over: cron.schedule("5 0 * * 1", refreshSnapshot)
RegisterCron ==
  /\ booted /\ ~cronRegistered
  /\ run[1].pc = "done"
  /\ cronRegistered' = TRUE
  /\ UNCHANGED << cachedSnapshot, lastUpdated, lastError, disk, dirExists, clock, booted, run, thumbCache, req >>

\* the weekly tick fires at a later instant while no earlier run is unfinished
CronTick(t) ==
  /\ cronRegistered
  /\ t \in TickTimes
  /\ t > clock
  /\ \A r \in Frames : frameFree(run[r])
  /\ clock' = t
  /\ SetRun(1, startRun)
  /\ lastError' = None
  /\ UNCHANGED << cachedSnapshot, lastUpdated, disk, dirExists, booted, cronRegistered, thumbCache, req >>

(* ------------------------------------------------------------------ *)
(* Specifications                                                      *)
(* ------------------------------------------------------------------ *)

\* a snapshot an earlier process wrote at the tick of the week before
OldSnapshot ==
  LET old == enrichAll(topCandidatesOf(<< ItemA(1) >>), setAll(EmptyMap, << DetailOf(1) >>),
                       setAll(EmptyMap, << VoteOf(1) >>), MapSet(EmptyMap, 1, Some(30)))
  IN  buildSnapshot([sortId |-> "s1", sortName |-> "Popular"], old, old, None,
                    Instant(2023, 12, 31, 15, 5))

EmptyDisk == [p \in {} |-> None]

PriorDisks ==
  {EmptyDisk,
   WriteFile(WriteFile(EmptyDisk, datedPathOf(OldSnapshot), Serialized(OldSnapshot)),
             LatestPath, Serialized(OldSnapshot))}

\* the module is loaded: nothing cached, the disk as earlier processes left it
Init ==
  /\ cachedSnapshot = None
  /\ lastUpdated = None
  /\ lastError = None
  /\ disk \in PriorDisks
  /\ dirExists = (disk # EmptyDisk)
  /\ clock = BootTime
  /\ booted = FALSE
  /\ cronRegistered = FALSE
  /\ thumbCache = EmptyMap
  /\ req = None
  /\ run = [r \in Frames |-> IdleFrame]

Next ==
  \/ Boot
  \/ RegisterCron
  \/ \E t \in TickTimes : CronTick(t)
  \/ \E r \in Frames, res \in SortsAnswers(PipeCatMenu) : GetSortsResponse(r, res)
  \/ \E r \in Frames, res \in ContentAnswers(PipeItemMenu, PipeMaxItems) : ContentResponse(r, res)
  \/ \E r \in Frames :
       /\ run[r].en.dState = "wait"
       /\ \E res \in PipeBatchAnswers(detailsAsked(run[r].en)) : DetailsResponse(r, res)
  \/ \E r \in Frames :
       /\ run[r].en.vState = "wait"
       /\ \E res \in PipeBatchAnswers(votesAsked(run[r].en)) : VotesResponse(r, res)
  \/ \E r \in Frames, pos \in 1..PipeMaxItems, res \in PipeFavAnswers : FavResponse(r, pos, res)
  \/ \E r \in Frames : EnrichReturn(r)
  \/ \E r \in Frames :
       /\ run[r].pc = "ai"
       /\ \E out \in PipeAiOutcomes : AiResponse(r, out)
  \/ \E r \in Frames, ok \in BOOLEAN : MkdirResult(r, ok)
  \/ \E r \in Frames, outcome \in WriteOutcomes : WriteDatedResult(r, outcome)
  \/ \E r \in Frames, outcome \in WriteOutcomes : WriteLatestResult(r, outcome)

Spec == Init /\ [][Next]_vars

(* ------------------------------------------------------------------ *)
(* Properties of a whole run (Spec)                                    *)
(* ------------------------------------------------------------------ *)

\* every file the run found on disk is still there with its content
filesKept(f) ==
  \A p \in DOMAIN Val(f.atStart).disk :
    p \in DOMAIN disk /\ disk[p] = Val(f.atStart).disk[p]

\* the run left the disk and the cached snapshot as it found them
nothingPublished(f) ==
  /\ disk = Val(f.atStart).disk
  /\ cachedSnapshot = Val(f.atStart).cachedSnapshot
  /\ lastUpdated = Val(f.atStart).lastUpdated

\* every article of the snapshot is the deterministic fallback article
allFallback(snap) ==
  \A i \in 1..Len(snap.articles) : snap.articles[i].whyNow = Literal("fallback-why-now")

SaveEvents == {"mkdir", "write-dated", "write-latest"}
FetchEvents == {"get-sorts", "details", "votes"}

\* C2 (as the claim states it): when the AI request itself fails, the run
\* does not fail: a snapshot with the fallback articles is cached and
\* persisted and no error is recorded.
C2_AiFailureStillPublishes ==
  \A r \in Frames :
    (run[r].pc = "done" /\ "ai" \in run[r].events)
      => /\ lastError = None
         /\ cachedSnapshot # None
         /\ allFallback(Val(cachedSnapshot))
         /\ LatestPath \in DOMAIN disk
         /\ disk[LatestPath] = Serialized(Val(cachedSnapshot))

\* C3 (as the claim states it): when one of the two writes fails,
\* every file that existed before the run holds the content it had.
C3_FailedSaveKeepsFiles ==
  \A r \in Frames :
    (run[r].pc = "done" /\ run[r].events \cap {"write-dated", "write-latest"} # {})
      => filesKept(run[r])

\* C4 (as the claim states it): when persistence fails, cachedSnapshot and
\* lastUpdated are the values the last successful run left.
C4_FailedSaveKeepsCache ==
  \A r \in Frames :
    (run[r].pc = "done" /\ run[r].events \cap SaveEvents # {})
      => /\ cachedSnapshot = Val(run[r].atStart).cachedSnapshot
         /\ lastUpdated = Val(run[r].atStart).lastUpdated

\* C5: when get-sorts or a details or votes batch answers non-2xx or with
\* malformed JSON, the run ends without a snapshot: no file is written,
\* cachedSnapshot and lastUpdated are unchanged, lastError is set, and the
\* get-sorts request was made once only (nothing is retried).
C5_FetchFailureAborts ==
  \A r \in Frames :
    (run[r].pc # "idle" /\ run[r].events \cap FetchEvents # {})
      => /\ run[r].pc = "done"
         /\ run[r].snap = None
         /\ nothingPublished(run[r])
         /\ lastError # None
         /\ run[r].calls.sorts = 1
         /\ run[r].calls.ai = 0

\* C5 witness: a run over an older snapshot was aborted by a failed batch
C5_Witness ==
  \E r \in Frames :
    /\ run[r].pc = "done"
    /\ "details" \in run[r].events
    /\ cachedSnapshot # None
    /\ LatestPath \in DOMAIN disk

\* C5 witness of the first case: the get-sorts request failed
C5_WitnessSorts ==
  \E r \in Frames : run[r].pc = "done" /\ "get-sorts" \in run[r].events

\* findSortWithItems has returned null to the run in frame f
sortReturnedNull(f) ==
  /\ f.scope = "run"
  /\ f.pc \notin {"idle", "sorts", "content"}
  /\ f.picked = None
  /\ "get-sorts" \notin f.events

\* C8: when no category is usable, findSortWithItems returns null and the
\* run fails: no enrichment request and no AI request is made, no file is
\* written, nothing is cached, and lastError is set.
C8_NoSortFailsRun ==
  \A r \in Frames :
    sortReturnedNull(run[r])
      => /\ run[r].pc = "done"
         /\ run[r].calls.enrich = 0
         /\ run[r].calls.details = 0 /\ run[r].calls.votes = 0 /\ run[r].calls.favs = 0
         /\ run[r].calls.ai = 0
         /\ run[r].snap = None
         /\ nothingPublished(run[r])
         /\ lastError = Some("no sort with items")

\* C8 witness: every category was fetched and none had a game
C8_Witness ==
  \E r \in Frames :
    /\ sortReturnedNull(run[r])
    /\ Len(run[r].tried) >= 1
    /\ \A i \in 1..Len(run[r].tried) : ~run[r].tried[i].usable

(* ------------------------------------------------------------------ *)
(* findSortWithItems on its own (SpecSort)                             *)
(* ------------------------------------------------------------------ *)

\* the process state of a call modelled on its own: nothing cached, no file
QuietProcess ==
  /\ cachedSnapshot = None
  /\ lastUpdated = None
  /\ lastError = None
  /\ disk = EmptyDisk
  /\ dirExists = FALSE
  /\ clock = BootTime
  /\ booted = FALSE
  /\ cronRegistered = FALSE
  /\ thumbCache = EmptyMap
  /\ req = None

\* findSortWithItems(sessionId) has been called and awaits get-sorts
InitSort ==
  /\ QuietProcess
  /\ run = [r \in Frames |->
              IF r = 1 THEN [IdleFrame EXCEPT !.scope = "sort", !.pc = "sorts", !.calls.sorts = 1]
              ELSE IdleFrame]

NextSort ==
  \/ \E r \in Frames, res \in SortsAnswers(CatMenu) : GetSortsResponse(r, res)
  \/ \E r \in Frames, res \in ContentAnswers(ItemMenu, MaxItems) : ContentResponse(r, res)

SpecSort == InitSort /\ [][NextSort]_vars

\* the priority class the name of a category puts it in: 1 popular,
\* 2 trending, 3 top, 4 all others
priorityClass(s) ==
  LET words == NameKeywords(sortNameOf(s))
  IN  IF "popular" \in words THEN 1
      ELSE IF "trending" \in words THEN 2
      ELSE IF "top" \in words THEN 3
      ELSE 4

\* C7: findSortWithItems tries the categories in priority order (popular,
\* trending, top, others) and returns the first one whose content answer has
\* games: every category tried before it was unusable, every listed
\* category of strictly higher priority was tried, and null is returned
\* only when every listed category was tried and none was usable.
C7_FirstUsableByPriority ==
  \A r \in Frames :
    (run[r].scope = "sort" /\ run[r].pc = "returned") =>
      LET f == run[r]
          tr == f.tried
          n == Len(tr)
          listed(c) == notFiltersSort(c) /\ ~noSortId(c)
          wasTried(c) == \E i \in 1..n : tr[i].cat = c
      IN  /\ \A i, j \in 1..n : i < j => priorityClass(tr[i].cat) <= priorityClass(tr[j].cat)
          /\ \A i \in 1..(n - 1) : ~tr[i].usable
          /\ f.picked # None =>
               /\ n >= 1 /\ tr[n].usable
               /\ Val(f.picked).sortId = Val(sortIdOf(tr[n].cat))
               /\ Val(f.picked).sortName = sortNameOf(tr[n].cat)
               /\ \A k \in 1..Len(f.sorts) :
                    (listed(f.sorts[k]) /\ priorityClass(f.sorts[k]) < priorityClass(tr[n].cat))
                      => wasTried(f.sorts[k])
          /\ f.picked = None =>
               /\ \A i \in 1..n : ~tr[i].usable
               /\ \A k \in 1..Len(f.sorts) : listed(f.sorts[k]) => wasTried(f.sorts[k])

\* C7 witness: the answer listed a lower-priority category first; the
\* higher-priority one was tried first, had no games, and the other was
\* returned
C7_Witness ==
  \E r \in Frames :
    /\ run[r].scope = "sort" /\ run[r].pc = "returned"
    /\ run[r].picked # None
    /\ Len(run[r].tried) = 2
    /\ Len(run[r].sorts) = 2
    /\ run[r].sorts[1] = run[r].tried[2].cat
    /\ priorityClass(run[r].tried[1].cat) < priorityClass(run[r].tried[2].cat)

(* ------------------------------------------------------------------ *)
(* enrichCandidates on its own (SpecEnrich)                            *)
(* ------------------------------------------------------------------ *)

\* candidate lists: up to MaxCands games out of two, repeats included
EnrichCandidateLists ==
  {topCandidatesOf(items) : items \in SeqsOf({ItemA(1), ItemB(2)}, 0, MaxCands)}

\* enrichCandidates(cands, {favConcurrency: conc}) has been called
InitEnrich ==
  /\ QuietProcess
  /\ \E cands \in EnrichCandidateLists, conc \in 1..MaxConc :
       run = [r \in Frames |->
                IF r = 1 THEN withEnrich([IdleFrame EXCEPT !.scope = "enrich"], cands, conc, "alone")
                ELSE IdleFrame]

NextEnrich ==
  \/ \E r \in Frames :
       /\ run[r].en.dState = "wait"
       /\ \E res \in BatchAnswers(detailsAsked(run[r].en)) : DetailsResponse(r, res)
  \/ \E r \in Frames :
       /\ run[r].en.vState = "wait"
       /\ \E res \in BatchAnswers(votesAsked(run[r].en)) : VotesResponse(r, res)
  \/ \E r \in Frames, pos \in 1..MaxCands, res \in FavAnswers : FavResponse(r, pos, res)
  \/ \E r \in Frames : EnrichReturn(r)

SpecEnrich == InitEnrich /\ [][NextEnrich]_vars

\* every favorites request made for the game of record i threw
favAlwaysThrew(en, i) ==
  \A pos \in 1..Len(en.cands) :
    en.cands[pos].universeId = en.cands[i].universeId => pos \in en.favThrown

\* C6 (as the claim states it): when a vote, detail or favorites call fails,
\* enrichCandidates still returns normally.
C6_AnyFailureDegrades ==
  \A r \in Frames :
    (run[r].scope = "enrich"
       /\ (run[r].en.dState = "failed" \/ run[r].en.vState = "failed" \/ run[r].en.favThrown # {}))
      => run[r].pc \in {"enrich", "returned"}

\* C6 (amended): enrichCandidates throws exactly when a details or votes
\* batch call failed. When it returns, a game whose favorites calls all
\* failed has favorites null, a game the details answer left out has the
\* detail fields null, and one the votes answer left out has upVotes,
\* downVotes and likeRatio null.
C6_FailureHandling ==
  \A r \in Frames :
    run[r].scope = "enrich" =>
      LET f == run[r]
          en == f.en
      IN  /\ (f.pc = "thrown") <=> (en.dState = "failed" \/ en.vState = "failed")
          /\ f.pc = "returned" =>
               \A i \in 1..Len(f.top5) :
                 LET g == f.top5[i]
                     id == en.cands[i].universeId
                 IN  /\ favAlwaysThrew(en, i) => g.favorites = None
                     /\ id \notin DOMAIN en.dMap =>
                          /\ g.placeId = None /\ g.description = None /\ g.updated = None
                          /\ g.maxPlayers = None /\ g.genre = None
                     /\ id \notin DOMAIN en.vMap =>
                          g.upVotes = None /\ g.downVotes = None /\ g.likeRatio = None

\* C6 witness: the call returned although a favorites call had failed and
\* the details answer had left a game out
C6_Witness ==
  \E r \in Frames :
    /\ run[r].scope = "enrich" /\ run[r].pc = "returned"
    /\ \E i \in 1..Len(run[r].top5) :
         /\ favAlwaysThrew(run[r].en, i)
         /\ run[r].top5[i].favorites = None
    /\ \E i \in 1..Len(run[r].top5) :
         /\ run[r].en.cands[i].universeId \notin DOMAIN run[r].en.dMap
         /\ run[r].top5[i].placeId = None

\* C6 witness of the other half: a failed votes batch made the call throw
C6_WitnessThrown ==
  \E r \in Frames :
    run[r].scope = "enrich" /\ run[r].pc = "thrown" /\ run[r].en.vState = "failed"

\* C9: enrichCandidates returns one record for each candidate, in the order
\* of the candidates, whatever the order in which the answers arrived.
C9_RecordsFollowInput ==
  \A r \in Frames :
    (run[r].scope = "enrich" /\ run[r].pc = "returned")
      => /\ Len(run[r].top5) = Len(run[r].en.cands)
         /\ \A i \in 1..Len(run[r].en.cands) :
              run[r].top5[i].universeId = run[r].en.cands[i].universeId

\* C9 witness: a call for two different games returned after the details
\* answer had listed only one of them
C9_Witness ==
  \E r \in Frames :
    /\ run[r].scope = "enrich" /\ run[r].pc = "returned"
    /\ Len(run[r].en.cands) >= 2
    /\ run[r].en.cands[1].universeId # run[r].en.cands[2].universeId
    /\ run[r].en.cands[1].universeId \notin DOMAIN run[r].en.dMap
    /\ run[r].en.cands[2].universeId \in DOMAIN run[r].en.dMap

\* C10: never more than c favorites requests are in flight.
C10_FavoritesInFlightBounded ==
  \A r \in Frames : Cardinality(run[r].en.fly) <= run[r].en.conc

\* C10 witness: the pool is full again after a worker took its next
\* position, and positions are still waiting
C10_Witness ==
  \E r \in Frames :
    /\ Cardinality(run[r].en.fly) = run[r].en.conc
    /\ run[r].en.favI > run[r].en.conc
    /\ run[r].en.favI < Len(run[r].en.cands)

(* ------------------------------------------------------------------ *)
(* generateSnapshot from the AI request on (SpecGen)                   *)
(* ------------------------------------------------------------------ *)

\* enriched top-5 lists: up to MaxTop games out of two, with the details
\* answer complete or empty
GenTop5Lists ==
  {enrichAll(topCandidatesOf(items), dMap, setAll(EmptyMap, VotesOf(<< 1, 2 >>)),
             MapSet(EmptyMap, 1, Some(40))) :
     items \in SeqsOf({ItemA(1), ItemB(2)}, 0, MaxTop),
     dMap \in {EmptyMap, setAll(EmptyMap, DetailsOf(<< 1, 2 >>))}}

\* generateSnapshot has enriched its lists and awaits the AI request
InitGen ==
  /\ QuietProcess
  /\ \E top \in GenTop5Lists :
       run = [r \in Frames |->
                IF r = 1
                THEN [IdleFrame EXCEPT !.scope = "gen", !.pc = "ai",
                                       !.picked = Some([sortId |-> "s1", sortName |-> "Popular"]),
                                       !.top5 = top, !.top100 = top, !.calls.ai = 1]
                ELSE IdleFrame]

NextGen ==
  \E r \in Frames :
    /\ run[r].pc = "ai"
    /\ \E out \in AiOutcomes(aiIds(run[r])) : AiResponse(r, out)

SpecGen == InitGen /\ [][NextGen]_vars

\* the articles of the parsed AI payload
payloadArticles(aiRaw) ==
  IF aiRaw = None \/ Get(Val(aiRaw), "articles") = None THEN << >>
  ELSE Val(Val(aiRaw).articles)

\* article a of the payload names game id and passes every shape check
validFor(a, id) == toNumber(Get(a, "universeId")) = Some(id) /\ articleOk(a)

\* C1: in every snapshot generateSnapshot returns there is one article for
\* each top-5 game, and either every article is the fallback article of its
\* game or every article is a validated article of the AI payload; when
\* the payload has no valid article for one of the games, every article is
\* the fallback article and there are no headlines.
C1_AllOrNothing ==
  \A r \in Frames :
    (run[r].scope = "gen" /\ run[r].pc = "returned") =>
      LET f == run[r]
          snap == Val(f.snap)
          arts == payloadArticles(f.aiRaw)
          isFallback(i) == snap.articles[i] = withPlaceId(fallbackArticle(f.top5[i]), f.top5[i])
          isAi(i) ==
            \E k \in 1..Len(arts) :
              /\ validFor(arts[k], f.top5[i].universeId)
              /\ snap.articles[i] =
                   withPlaceId(cleanArticle(f.top5[i].universeId, arts[k]), f.top5[i])
          covered(i) == \E k \in 1..Len(arts) : validFor(arts[k], f.top5[i].universeId)
      IN  /\ Len(snap.articles) = Len(f.top5)
          /\ \/ \A i \in 1..Len(f.top5) : isFallback(i)
             \/ \A i \in 1..Len(f.top5) : isAi(i)
          /\ (\E i \in 1..Len(f.top5) : ~covered(i))
               => /\ \A i \in 1..Len(f.top5) : isFallback(i)
                  /\ snap.headlines = << >>

\* C1 witness: the payload had a valid article for the first game and none
\* for the second, and both articles of the snapshot are fallback articles
C1_Witness ==
  \E r \in Frames :
    /\ run[r].scope = "gen" /\ run[r].pc = "returned"
    /\ Len(run[r].top5) >= 2
    /\ \E k \in 1..Len(payloadArticles(run[r].aiRaw)) :
         validFor(payloadArticles(run[r].aiRaw)[k], run[r].top5[1].universeId)
    /\ \A k \in 1..Len(payloadArticles(run[r].aiRaw)) :
         ~validFor(payloadArticles(run[r].aiRaw)[k], run[r].top5[2].universeId)
    /\ allFallback(Val(run[r].snap))

\* C1 witness of the other half: two different games, both with an article
\* of the AI payload
C1_WitnessAi ==
  \E r \in Frames :
    /\ run[r].scope = "gen" /\ run[r].pc = "returned"
    /\ Len(run[r].top5) >= 2
    /\ run[r].top5[1].universeId # run[r].top5[2].universeId
    /\ \A i \in 1..Len(run[r].top5) :
         Val(run[r].snap).articles[i].whyNow = Trim(AiText("ai-why-now"))

(* ------------------------------------------------------------------ *)
(* The snapshot API server: deltas against the previous edition        *)
(* ------------------------------------------------------------------ *)

Abs(n) == IF n < 0 THEN 0 - n ELSE n

RECURSIVE GCD(_, _)
GCD(a, b) == IF b = 0 THEN a ELSE GCD(b, a % b)

\* the number n / d (d # 0) as a fraction in lowest terms, den > 0
Quotient(n, d) ==
  LET g == GCD(Abs(n), Abs(d))
      sign == IF d < 0 THEN 0 - 1 ELSE 1
  IN  [num |-> sign * (n \div g), den |-> Abs(d) \div g]

\* deltaNumber with a missing previous value read as 0
deltaNumber_ZeroDefault(cur, prev) ==
  IF cur = None THEN None
  ELSE Some(Val(cur) - Coalesce(prev, Some(0))[1])

deltaNumber(cur, prev) ==
  IF cur = None \/ prev = None THEN None
  ELSE Some(Val(cur) - Val(prev))

\* deltaPct relative to the current value instead of the previous one
deltaPct_OverCur(cur, prev) ==
  IF cur = None \/ prev = None THEN None
  ELSE IF Val(cur) = 0 THEN None
  ELSE Some(Quotient(Val(cur) - Val(prev), Val(cur)))

deltaPct(cur, prev) ==
  IF cur = None \/ prev = None THEN None
  ELSE IF Val(prev) = 0 THEN None
  ELSE Some(Quotient(Val(cur) - Val(prev), Val(prev)))

\* new Map(list.map((g) => [g.universeId, g])): a later entry replaces an
\* earlier one with the same key
RECURSIVE byUniverseId(_, _)
byUniverseId(map, list) ==
  IF list = << >> THEN map
  ELSE byUniverseId(MapSet(map, list[1].universeId, list[1]), Tail(list))

\* x?.top5 ?? []
top5Of(x) == IF x = None \/ Get(Val(x), "top5") = None THEN << >> ELSE Val(x).top5

\* the delta object of game g against the previous entry p (None: no entry)
deltaOf(g, p) ==
  [playing |-> deltaNumber(Get(g, "playing"), Opt(p, "playing")),
   visits |-> deltaNumber(Get(g, "visits"), Opt(p, "visits")),
   favorites |-> deltaNumber(Get(g, "favorites"), Opt(p, "favorites")),
   likeRatio |-> deltaNumber(Get(g, "likeRatio"), Opt(p, "likeRatio")),
   playingPct |-> deltaPct(Get(g, "playing"), Opt(p, "playing")),
   favoritesPct |-> deltaPct(Get(g, "favorites"), Opt(p, "favorites")),
   prevUpdated |-> Opt(p, "updated")]

\* { ...o, [f]: v }
withField(o, f, v) == [x \in (DOMAIN o) \cup {f} |-> IF x = f THEN v ELSE o[x]]

buildDeltaSnapshot(latest, prev) ==
  LET prevMap == byUniverseId(EmptyMap, top5Of(prev))
      games == top5Of(Some(latest))
      top5 == [i \in 1..Len(games) |->
                 withField(games[i], "delta",
                           deltaOf(games[i], IF games[i].universeId \in DOMAIN prevMap
                                             THEN Some(prevMap[games[i].universeId])
                                             ELSE None))]
      prevMeta == IF prev = None THEN None
                  ELSE Some([generatedAt |-> Val(prev).generatedAt,
                             sortId |-> Val(prev).meta.sortId,
                             sortName |-> Val(prev).meta.sortName])
  IN  withField(withField(latest, "prevMeta", prevMeta), "top5", top5)

(* ------------------------------------------------------------------ *)
(* GET /api/snapshot/latest                                            *)
(* ------------------------------------------------------------------ *)

\* f.startsWith("roblox_top5_") && f.endsWith(".json")
isSnapshotName(path) == path[1] = "roblox_top5"

\* the order of the file names roblox_top5_YYYY-MM-DD.json as strings
nameBefore(a, b) ==
  \/ a[2] < b[2]
  \/ a[2] = b[2] /\ a[3] < b[3]
  \/ a[2] = b[2] /\ a[3] = b[3] /\ a[4] < b[4]

\* Array.sort of a set of distinct names
RECURSIVE sortedNames(_)
sortedNames(names) ==
  IF names = {} THEN << >>
  ELSE LET first == CHOOSE a \in names : \A b \in names \ {a} : nameBefore(a, b)
       IN  << first >> \o sortedNames(names \ {first})

\* listSnapshotFiles with the names in descending order
listSnapshotFiles_Descending(d) == Reverse(sortedNames({path \in DOMAIN d : isSnapshotName(path)}))

\* what readdir, filter and sort give for the directory content d
listSnapshotFiles(d) == sortedNames({path \in DOMAIN d : isSnapshotName(path)})

\* JSON.parse(await fs.readFile(p)): the read may fail; what a failed write
\* left behind does not parse
readSnapshot(d, path, readOk) ==
  IF ~readOk THEN Thrown("read failed")
  ELSE IF ~d[path].complete THEN Thrown("JSON parse failed")
  ELSE Returned(d[path].json)

\* the state of the refresh process
refresher == << cachedSnapshot, lastUpdated, lastError, booted, cronRegistered, run >>

\* a request handler that has run to its first await
\* (n numbers the requests; query, cached and answer are the thumbnail
\* handler's req.query.universeIds, cached and the settled upstream fetch;
\* calls and cacheReads count its upstream calls and thumbCache.get calls)
Handler(op, pc) ==
  [op |-> op, pc |-> pc, n |-> 1, query |-> None, key |-> None, now |-> 0,
   files |-> << >>, latest |-> None, cached |-> None, answer |-> None,
   calls |-> 0, cacheReads |-> 0, status |-> 0, body |-> None]

\* res.status(status).json(body)
Respond(h, status, body) == [h EXCEPT !.pc = "sent", !.status = status, !.body = Some(body)]

ErrorBody(msg) == [error |-> msg]

handling(op, pc) == req # None /\ Val(req).op = op /\ Val(req).pc = pc

\* fs.readdir settled: it throws when the directory does not exist
ReaddirResult ==
  /\ handling("latest", "readdir")
  /\ LET h == Val(req)
         files == listSnapshotFiles(disk)
     IN  req' = Some(IF ~dirExists THEN Respond(h, 500, ErrorBody("Snapshot load failed"))
                     ELSE IF files = << >> THEN Respond(h, 404, ErrorBody("No snapshot found"))
                     ELSE [h EXCEPT !.pc = "readLatest", !.files = files])
  /\ UNCHANGED << refresher, disk, dirExists, clock, thumbCache >>

\* readSnapshot(latestFile) settled
ReadLatestResult(readOk) ==
  /\ handling("latest", "readLatest")
  /\ LET h == Val(req)
         r == readSnapshot(disk, h.files[Len(h.files)], readOk)
     IN  req' = Some(IF r.thrown THEN Respond(h, 500, ErrorBody("Snapshot load failed"))
                     ELSE IF Len(h.files) >= 2
                     THEN [h EXCEPT !.pc = "readPrev", !.latest = Some(r.value)]
                     ELSE Respond(h, 200, buildDeltaSnapshot(r.value, None)))
  /\ UNCHANGED << refresher, disk, dirExists, clock, thumbCache >>

\* readSnapshot(prevFile) settled
ReadPrevResult(readOk) ==
  /\ handling("latest", "readPrev")
  /\ LET h == Val(req)
         r == readSnapshot(disk, h.files[Len(h.files) - 1], readOk)
     IN  req' = Some(IF r.thrown THEN Respond(h, 500, ErrorBody("Snapshot load failed"))
                     ELSE Respond(h, 200, buildDeltaSnapshot(Val(h.latest), Some(r.value))))
  /\ UNCHANGED << refresher, disk, dirExists, clock, thumbCache >>

\* the values a metric of a stored game may have
StatValues == {None, Some(0), Some(100), Some(120)}

\* a game of a snapshot file whose metrics are derived from v
StatGame(id, v) ==
  [universeId |-> id,
   playing |-> v,
   visits |-> IF v = None THEN None ELSE Some(Val(v) * 10),
   favorites |-> IF v = None THEN Some(0)
                 ELSE IF Val(v) = 0 THEN Some(100)
                 ELSE IF Val(v) = 100 THEN Some(120)
                 ELSE None,
   likeRatio |-> IF v = None THEN None ELSE Some(500000 + Val(v) * 1000),
   updated |-> IF v = None THEN None ELSE Some("2024-01-01")]

StatSnapshot(games, t) ==
  [generatedAt |-> toISOString(t),
   meta |-> [sortName |-> "Popular", sortId |-> "s1"],
   headlines |-> << >>, articles |-> << >>, top5 |-> games, top100 |-> games]

FileGameLists == SeqsOf({StatGame(i, v) : i \in {1, 2}, v \in StatValues}, 0, MaxFileGames)

\* the edition of the week before and the current one
PrevEdition(games) == StatSnapshot(games, Instant(2023, 12, 31, 15, 5))
LastEdition(games) == StatSnapshot(games, Instant(2024, 1, 7, 15, 5))

DiskOf(snaps) ==
  [path \in {datedPathOf(snaps[i]) : i \in 1..Len(snaps)} |->
     Serialized(CHOOSE x \in {snaps[i] : i \in 1..Len(snaps)} : datedPathOf(x) = path)]

\* directory contents the API server may find: nothing, latest.json only,
\* one edition, two editions, and two with one of them cut short by a
\* failed write
ServedDisks ==
  {EmptyDisk, WriteFile(EmptyDisk, LatestPath, Serialized(LastEdition(<< >>)))}
    \cup {DiskOf(<< LastEdition(l) >>) : l \in FileGameLists}
    \cup {DiskOf(<< PrevEdition(p), LastEdition(l) >>) : p \in FileGameLists, l \in FileGameLists}
    \cup {WriteFile(DiskOf(<< PrevEdition(<< >>) >>), datedPathOf(LastEdition(<< >>)),
                    Truncated(LastEdition(<< >>))),
          WriteFile(DiskOf(<< LastEdition(<< >>) >>), datedPathOf(PrevEdition(<< >>)),
                    Truncated(PrevEdition(<< >>)))}

\* GET /api/snapshot/latest has been received and awaits readdir
InitLatest ==
  /\ cachedSnapshot = None
  /\ lastUpdated = None
  /\ lastError = None
  /\ disk \in ServedDisks
  /\ dirExists \in (IF disk = EmptyDisk THEN BOOLEAN ELSE {TRUE})
  /\ clock = BootTime
  /\ booted = FALSE
  /\ cronRegistered = FALSE
  /\ run = [r \in Frames |-> IdleFrame]
  /\ thumbCache = EmptyMap
  /\ req = Some(Handler("latest", "readdir"))

NextLatest ==
  \/ ReaddirResult
  \/ \E readOk \in BOOLEAN : ReadLatestResult(readOk)
  \/ \E readOk \in BOOLEAN : ReadPrevResult(readOk)

SpecLatest == InitLatest /\ [][NextLatest]_vars

\* the request was answered 200
served200 == handling("latest", "sent") /\ Val(req).status = 200

\* the top5 lists of the newest edition on disk and of the one before it
newestTop5 == disk[Val(req).files[Len(Val(req).files)]].json.top5
earlierTop5 ==
  IF Len(Val(req).files) >= 2
  THEN disk[Val(req).files[Len(Val(req).files) - 1]].json.top5
  ELSE << >>

\* the positions of the earlier list that hold game id
matches(id) == {j \in 1..Len(earlierTop5) : earlierTop5[j].universeId = id}

\* the entry of the earlier list game id is matched with: the last one
matched(id) == earlierTop5[CHOOSE j \in matches(id) : \A k \in matches(id) : k <= j]

\* C11: for every game of the newest top5 matched in the earlier top5,
\* each of delta.playing, visits, favorites and likeRatio is cur - prev when
\* both values are there; playingPct and favoritesPct are null when prev is
\* null or zero and otherwise the quotient (cur - prev) / prev.
C11_DeltasAgainstPrevious ==
  served200 =>
    /\ Len(Val(req).body[1].top5) = Len(newestTop5)
    /\ \A i \in 1..Len(newestTop5) :
         LET g == newestTop5[i]
             d == Val(req).body[1].top5[i].delta
         IN  matches(g.universeId) # {} =>
               LET q == matched(g.universeId)
               IN  /\ \A f \in {"playing", "visits", "favorites", "likeRatio"} :
                        (g[f] # None /\ q[f] # None) => d[f] = Some(Val(g[f]) - Val(q[f]))
                   /\ \A f \in {"playing", "favorites"} :
                        LET pct == IF f = "playing" THEN d.playingPct ELSE d.favoritesPct
                        IN  g[f] # None =>
                              IF q[f] = None \/ Val(q[f]) = 0 THEN pct = None
                              ELSE /\ pct # None
                                   /\ Val(pct).den > 0
                                   /\ Val(pct).num * Val(q[f]) = (Val(g[f]) - Val(q[f])) * Val(pct).den

\* C11 witness: playing 120 against 100 gives delta 20 and 1/5
C11_Witness ==
  /\ served200
  /\ Len(newestTop5) >= 1
  /\ matches(newestTop5[1].universeId) # {}
  /\ newestTop5[1].playing = Some(120)
  /\ matched(newestTop5[1].universeId).playing = Some(100)
  /\ Val(req).body[1].top5[1].delta.playing = Some(20)
  /\ Val(req).body[1].top5[1].delta.playingPct = Some([num |-> 1, den |-> 5])

NullDelta ==
  [playing |-> None, visits |-> None, favorites |-> None, likeRatio |-> None,
   playingPct |-> None, favoritesPct |-> None, prevUpdated |-> None]

\* C12: when there is no earlier edition, or a game of the newest top5 is
\* not in the earlier top5, every field of its delta is null.
C12_NoPreviousMeansNull ==
  served200 =>
    \A i \in 1..Len(newestTop5) :
      matches(newestTop5[i].universeId) = {}
        => Val(req).body[1].top5[i].delta = NullDelta

\* C12 witness: an earlier edition exists but lists another game, and the
\* unmatched game has metrics
C12_Witness ==
  /\ served200
  /\ Len(Val(req).files) = 2
  /\ Len(earlierTop5) >= 1
  /\ Len(newestTop5) >= 1
  /\ matches(newestTop5[1].universeId) = {}
  /\ newestTop5[1].playing = Some(0)
  /\ Val(req).body[1].top5[1].delta = NullDelta

\* C12 witness of the first case: the only edition on disk
C12_WitnessFirstEdition ==
  /\ served200
  /\ Len(Val(req).files) = 1
  /\ Len(newestTop5) >= 1
  /\ Val(req).body[1].top5[1].delta = NullDelta

\* C14 (as the claim states it): the answer is 404 whenever no snapshot file
\* exists, the directory included; 500 when a file exists but does not
\* parse; 200 with the newest edition otherwise.
C14_LatestStatusCodes ==
  handling("latest", "sent") =>
    IF {path \in DOMAIN disk : isSnapshotName(path)} = {}
    THEN Val(req).status = 404
    ELSE /\ Val(req).status \in {200, 500}
         /\ ~disk[Val(req).files[Len(Val(req).files)]].complete => Val(req).status = 500
         /\ Val(req).status = 200 =>
              Val(req).body[1].generatedAt =
                disk[Val(req).files[Len(Val(req).files)]].json.generatedAt

(* ------------------------------------------------------------------ *)
(* GET /api/thumbnails (SpecThumbs)                                    *)
(* ------------------------------------------------------------------ *)

MaxRequests == 3

\* const THUMB_TTL_MS = 1000 * 60 * 30, in whole minutes as every instant is
THUMB_TTL_MS == 30

\* a query string: its characters without the surrounding whitespace, and
\* the number of whitespace characters around them
QueryText(core, spaces) == [core |-> core, spaces |-> spaces]

\* String(v ?? "")
StringOf(v) == Val(Coalesce(v, Some(QueryText("", 0))))

trim_Identity(s) == s

\* s.trim()
trim(s) == [s EXCEPT !.spaces = 0]

\* !s for a string
isEmptyString(s) == s.core = "" /\ s.spaces = 0

\* fetchRobloxThumbnails(universeIdsCsv), given how the upstream fetch settled
fetchRobloxThumbnails(a) ==
  IF a.rejected THEN Thrown("fetch failed")
  ELSE IF ~a.res.ok THEN Thrown("Roblox thumbnails error")
  ELSE IF a.res.text # "json" THEN Thrown("SyntaxError")
  ELSE Returned(a.res.json)

isFresh_AtExpiry(cached, now) == cached # None /\ cached.expiresAt >= now

\* cached && cached.expiresAt > now
isFresh(cached, now) == cached # None /\ cached.expiresAt > now

\* the handler from the arrival of the request to its first await: the 400
\* answer, the cache lookup, the answer from the cache, or the upstream
\* request sent
thumbsArrived(h0, cache) ==
  LET universeIds == trim(StringOf(h0.query))
      h == [h0 EXCEPT !.key = Some(universeIds)]
      cached == MapGet(cache, universeIds)
      looked == [h EXCEPT !.cacheReads = 1,
                          !.cached = IF cached = None THEN None ELSE Some(cached)]
  IN  IF isEmptyString(universeIds)
      THEN Respond(h, 400, ErrorBody("universeIds required"))
      ELSE IF isFresh(cached, h.now)
      THEN Respond(looked, 200, cached.payload)
      ELSE [looked EXCEPT !.pc = "fetch", !.calls = 1]

\* a GET /api/thumbnails request arrives, elapsed minutes after the one before
ThumbsRequest(query, elapsed) ==
  /\ IF req = None THEN TRUE ELSE Val(req).op = "thumbs" /\ Val(req).pc = "sent"
  /\ IF req = None THEN TRUE ELSE Val(req).n < MaxRequests
  /\ clock' = clock + elapsed
  /\ LET h == [Handler("thumbs", "arrived") EXCEPT
                 !.n = IF req = None THEN 1 ELSE Val(req).n + 1,
                 !.query = query, !.now = clock']
     IN  req' = Some(thumbsArrived(h, thumbCache))
  /\ UNCHANGED << refresher, disk, dirExists, thumbCache >>

\* thumbsSettled that keeps an entry of the key which expires later
thumbsSettled_KeepLater(h0, answer, cache) ==
  LET h == [h0 EXCEPT !.answer = Some(answer)]
      r == fetchRobloxThumbnails(answer)
      key == Val(h.key)
      keep == key \in DOMAIN cache /\ cache[key].expiresAt > h.now + THUMB_TTL_MS
  IN  IF r.thrown
      THEN [h |-> Respond(h, 502, ErrorBody("thumbnail proxy failed")), cache |-> cache]
      ELSE [h |-> Respond(h, 200, r.value),
            cache |-> IF keep THEN cache
                      ELSE MapSet(cache, key, [expiresAt |-> h.now + THUMB_TTL_MS,
                                               payload |-> r.value])]

\* the handler from the settled upstream fetch on: the entry is stored and
\* the payload passed on, or the catch answers 502
thumbsSettled_DropOnFail(h0, answer, cache) ==
  LET h == [h0 EXCEPT !.answer = Some(answer)]
      r == fetchRobloxThumbnails(answer)
  IN  IF r.thrown
      THEN [h |-> Respond(h, 502, ErrorBody("thumbnail proxy failed")),
            cache |-> [k \in DOMAIN cache \ {Val(h.key)} |-> cache[k]]]
      ELSE [h |-> Respond(h, 200, r.value),
            cache |-> MapSet(cache, Val(h.key),
                             [expiresAt |-> h.now + THUMB_TTL_MS, payload |-> r.value])]

thumbsSettled(h0, answer, cache) ==
  LET h == [h0 EXCEPT !.answer = Some(answer)]
      r == fetchRobloxThumbnails(answer)
  IN  IF r.thrown
      THEN [h |-> Respond(h, 502, ErrorBody("thumbnail proxy failed")), cache |-> cache]
      ELSE [h |-> Respond(h, 200, r.value),
            cache |-> MapSet(cache, Val(h.key),
                             [expiresAt |-> h.now + THUMB_TTL_MS, payload |-> r.value])]

\* the upstream fetch of the request settled
ThumbsUpstreamResult(answer) ==
  /\ handling("thumbs", "fetch")
  /\ req' = Some(thumbsSettled(Val(req), answer, thumbCache).h)
  /\ thumbCache' = thumbsSettled(Val(req), answer, thumbCache).cache
  /\ UNCHANGED << refresher, disk, dirExists, clock >>

\* what the requests and the thumbnail API may be
ThumbQueries ==
  {None, Some(QueryText("", 0)), Some(QueryText("", 2)),
   Some(QueryText("1,2", 0)), Some(QueryText("1,2", 2)), Some(QueryText("3", 0))}

ThumbElapsed == {10, 30, 31}

ThumbPayload(url) ==
  [data |-> << [targetId |-> 1, state |-> "Completed", imageUrl |-> url] >>]

ThumbAnswers ==
  {Rejected, Resolved(HttpFail), Resolved(BadJson), Resolved(EmptyBody),
   Resolved(Json(ThumbPayload("a"))), Resolved(Json(ThumbPayload("b")))}

InitThumbs ==
  /\ QuietProcess
  /\ run = [r \in Frames |-> IdleFrame]

NextThumbs ==
  \/ \E query \in ThumbQueries, elapsed \in ThumbElapsed : ThumbsRequest(query, elapsed)
  \/ \E answer \in ThumbAnswers : ThumbsUpstreamResult(answer)

SpecThumbs == InitThumbs /\ [][NextThumbs]_vars

\* the thumbnail request was answered
thumbsSent == handling("thumbs", "sent")

\* the upstream call of the request was made and failed: the fetch was
\* rejected, the status was not 2xx, or the body was not JSON
upstreamFailed ==
  LET a == Val(req).answer
  IN  IF a = None THEN FALSE
      ELSE IF Val(a).rejected THEN TRUE
      ELSE ~Val(a).res.ok \/ Val(a).res.text # "json"

\* the entry the request found for its key when it arrived
foundEntry == Val(Val(req).cached)

\* the entry now stored for the key of the request
storedEntry == thumbCache[Val(Val(req).key)]

\* the entry a successful upstream call of the request stores
freshEntry ==
  [expiresAt |-> Val(req).now + 30, payload |-> Val(Val(req).answer).res.json]

\* the request found an entry for its key, and arrived before its expiry
arrivedWithinTtl == Val(req).cached # None /\ Val(req).now < foundEntry.expiresAt

\* the request found an entry for its key, and arrived at or after its expiry
arrivedExpired == Val(req).cached # None /\ Val(req).now >= foundEntry.expiresAt

\* C13 as stated: a request for K that arrives before the expiry of K's entry
\* is answered with the cached payload and makes no upstream call; one that
\* arrives at or after the expiry makes a fresh upstream call and the entry
\* is replaced
C13_ExpiredEntryReplaced ==
  thumbsSent =>
    /\ arrivedWithinTtl =>
         /\ Val(req).status = 200
         /\ Val(req).body = Some(foundEntry.payload)
         /\ Val(req).calls = 0
    /\ arrivedExpired =>
         /\ Val(req).calls = 1
         /\ storedEntry # foundEntry
         /\ storedEntry.expiresAt = Val(req).now + 30

\* C13 amended: a request for K that arrives before the expiry of K's entry
\* (30 minutes after the arrival of the request that filled it) is answered
\* with the cached payload, makes no upstream call and leaves the entry; one
\* that arrives at or after the expiry makes a fresh upstream call, and the
\* entry is replaced when that call succeeds and stays as it was when the
\* call fails
C13_CacheWithinTtl ==
  thumbsSent =>
    /\ arrivedWithinTtl =>
         /\ Val(req).status = 200
         /\ Val(req).body = Some(foundEntry.payload)
         /\ Val(req).calls = 0
         /\ storedEntry = foundEntry
    /\ arrivedExpired =>
         /\ Val(req).calls = 1
         /\ storedEntry = (IF upstreamFailed THEN foundEntry ELSE freshEntry)
    /\ (Val(req).calls = 1 /\ ~upstreamFailed) => storedEntry = freshEntry

\* a request that arrived exactly at the expiry of its key's entry was
\* answered from upstream with another payload
C13_Witness ==
  /\ thumbsSent
  /\ Val(req).cached # None
  /\ Val(req).now = foundEntry.expiresAt
  /\ Val(req).status = 200
  /\ storedEntry.payload # foundEntry.payload

\* a request was answered from the cache ten minutes before the expiry
C13_WitnessHit ==
  /\ thumbsSent
  /\ arrivedWithinTtl
  /\ Val(req).now + 10 = foundEntry.expiresAt
  /\ Val(req).calls = 0

\* a request that arrived after the expiry failed upstream
C13_WitnessStale ==
  /\ thumbsSent
  /\ arrivedExpired
  /\ upstreamFailed
  /\ Val(req).status = 502

\* universeIds is missing, empty or only whitespace
blankQuery == Val(req).query = None \/ Val(Val(req).query).core = ""

\* C15: a thumbnail request whose universeIds is missing, empty or only
\* whitespace is answered 400 with no upstream call and no cache access; one
\* whose upstream call fails is answered 502; every other one is answered 200
\* with the upstream payload, or the cached one, as it is
C15_ThumbnailStatusCodes ==
  thumbsSent =>
    IF blankQuery
    THEN /\ Val(req).status = 400
         /\ Val(req).calls = 0
         /\ Val(req).cacheReads = 0
    ELSE IF upstreamFailed
    THEN Val(req).status = 502
    ELSE /\ Val(req).status = 200
         /\ Val(req).body = Some(IF Val(req).answer # None
                                 THEN Val(Val(req).answer).res.json
                                 ELSE foundEntry.payload)

\* a whitespace-only universeIds was refused while the cache held entries
C15_Witness ==
  /\ thumbsSent
  /\ Val(req).query = Some(QueryText("", 2))
  /\ Val(req).status = 400
  /\ thumbCache # EmptyMap

C15_Witness502 == thumbsSent /\ Val(req).status = 502 /\ Val(Val(req).answer) = Resolved(BadJson)

C15_Witness200 == thumbsSent /\ Val(req).status = 200 /\ Val(req).calls = 0

(* ------------------------------------------------------------------ *)
(* The snapshot files over the runs (Spec)                             *)
(* ------------------------------------------------------------------ *)

\* the dated file at path is the one of the UTC+9 calendar day instant t
\* falls on: that day runs from 9 hours before its UTC midnight on, for 24
\* hours
fileOfDay(path, t) ==
  /\ Len(path) = 4
  /\ path[1] = "roblox_top5"
  /\ LET midnight == Instant(path[2], path[3], path[4], 0, 0)
     IN  midnight - 9 * 60 <= t /\ t < midnight - 9 * 60 + 24 * 60

\* the run of frame r is over and recorded no error
completedRun(r) == run[r].pc = "done" /\ lastError = None

\* C16: after a run that completes without error, latest.json and the dated
\* file of the run's UTC+9 day hold the same content, the serialization of
\* the snapshot the run generated, which is the most recently generated one
C16_BothFilesHoldTheSnapshot ==
  \A r \in Frames :
    completedRun(r) =>
      /\ run[r].snap # None
      /\ cachedSnapshot = run[r].snap
      /\ LatestPath \in DOMAIN disk
      /\ disk[LatestPath] = [complete |-> TRUE, json |-> Val(run[r].snap)]
      /\ \E p \in DOMAIN disk : fileOfDay(p, clock) /\ disk[p] = disk[LatestPath]
      /\ \A p \in DOMAIN disk : fileOfDay(p, clock) => disk[p] = disk[LatestPath]

\* the cron run completed without error over the files the boot run wrote
C16_Witness ==
  /\ cronRegistered
  /\ completedRun(1)
  /\ Val(run[1].atStart).cachedSnapshot # None
  /\ Val(run[1].atStart).cachedSnapshot # cachedSnapshot
  /\ LatestPath \in DOMAIN Val(run[1].atStart).disk
  /\ Val(run[1].atStart).disk[LatestPath] # disk[LatestPath]

\* C19: a run changes or creates no file but latest.json and the dated file
\* of its own UTC+9 day: every dated file of another day holds what it held
\* when the run started
C19_OtherDaysUntouched ==
  \A r \in Frames :
    run[r].atStart # None =>
      LET before == Val(run[r].atStart).disk
      IN  /\ \A p \in DOMAIN before :
               (p # LatestPath /\ ~fileOfDay(p, clock))
                 => (p \in DOMAIN disk /\ disk[p] = before[p])
          /\ \A p \in (DOMAIN disk) \ (DOMAIN before) :
               p = LatestPath \/ fileOfDay(p, clock)

\* the cron run rewrote the dated file the boot run wrote the same UTC+9 day
\* while the dated file of the week before is on the disk
C19_Witness ==
  /\ cronRegistered
  /\ completedRun(1)
  /\ \E p \in DOMAIN Val(run[1].atStart).disk :
       fileOfDay(p, clock) /\ disk[p] # Val(run[1].atStart).disk[p]
  /\ \E p \in DOMAIN disk : p # LatestPath /\ ~fileOfDay(p, clock)

(* ------------------------------------------------------------------ *)
(* kstDateKey, likeRatio and fallbackArticle on their own (SpecCalls)  *)
(* ------------------------------------------------------------------ *)

MaxVotes == 4

\* a call of one function with its arguments, before it returns
Call(op, args) == [op |-> op, pc |-> "called", args |-> args, result |-> None]

Return(c, v) == [c EXCEPT !.pc = "returned", !.result = Some(v)]

\* kstDateKey(new Date(payload.generatedAt)) returns
KstDateKeyReturns ==
  /\ handling("kstDateKey", "called")
  /\ req' = Some(Return(Val(req), kstDateKey(parseISO(Val(req).args.generatedAt))))
  /\ UNCHANGED << refresher, disk, dirExists, clock, thumbCache >>

\* likeRatio(up, down) returns and the ratio is rounded
LikeRatioReturns ==
  /\ handling("likeRatio", "called")
  /\ req' = Some(Return(Val(req), likeRatio(Val(req).args.up, Val(req).args.down)))
  /\ UNCHANGED << refresher, disk, dirExists, clock, thumbCache >>

\* fallbackArticle(g) returns
FallbackArticleReturns ==
  /\ handling("fallbackArticle", "called")
  /\ req' = Some(Return(Val(req), fallbackArticle(Val(req).args.g)))
  /\ UNCHANGED << refresher, disk, dirExists, clock, thumbCache >>

\* generatedAt values around the 15:00 UTC switch, at the ends of months of
\* every length and of the year
GeneratedDates ==
  {<< 2024, 1, 1 >>, << 2023, 12, 31 >>, << 2024, 12, 31 >>, << 2024, 2, 28 >>,
   << 2024, 2, 29 >>, << 2023, 2, 28 >>, << 2024, 3, 31 >>, << 2024, 4, 30 >>,
   << 2100, 2, 28 >>, << 2000, 2, 29 >>}

GeneratedTimes == {<< 0, 0 >>, << 14, 59 >>, << 15, 0 >>, << 16, 0 >>, << 23, 59 >>}

VoteCounts == {None} \cup {Some(n) : n \in 0..MaxVotes}

\* descriptions: none, the empty string, blanks only, a short one with
\* whitespace to collapse, one longer than each limit
DescriptionMenu ==
  {None, Some(Text("desc", 0, FALSE)), Some(Text("desc", 0, TRUE)),
   Some(Text("desc", 50, TRUE)), Some(Text("desc", DECK_MAX + 1, FALSE)),
   Some(Text("desc", LEDE_MAX + 1, FALSE)), Some(Text("desc", RECAP_MAX + 1, FALSE))}

\* an EnrichedGame with the given description whose metrics are all metric
GameWith(description, metric) ==
  [universeId |-> 1, placeId |-> metric, name |-> Text("(no name)", 9, FALSE),
   description |-> description, playing |-> metric, visits |-> metric,
   favorites |-> metric, upVotes |-> metric, downVotes |-> metric,
   likeRatio |-> likeRatio(metric, metric), updated |-> None,
   maxPlayers |-> metric, genre |-> None]

InitCalls ==
  /\ cachedSnapshot = None
  /\ lastUpdated = None
  /\ lastError = None
  /\ disk = EmptyDisk
  /\ dirExists = FALSE
  /\ clock = BootTime
  /\ booted = FALSE
  /\ cronRegistered = FALSE
  /\ run = [r \in Frames |-> IdleFrame]
  /\ thumbCache = EmptyMap
  /\ req \in
       {Some(Call("kstDateKey", [generatedAt |-> [date |-> d, hour |-> t[1], minute |-> t[2]]])) :
          d \in GeneratedDates, t \in GeneratedTimes}
       \cup {Some(Call("likeRatio", [up |-> up, down |-> down])) :
               up \in VoteCounts, down \in VoteCounts}
       \cup {Some(Call("fallbackArticle", [g |-> GameWith(description, metric)])) :
               description \in DescriptionMenu, metric \in {None, Some(0), Some(5)}}

NextCalls ==
  \/ KstDateKeyReturns
  \/ LikeRatioReturns
  \/ FallbackArticleReturns

SpecCalls == InitCalls /\ [][NextCalls]_vars

\* the call of op returned
returned(op) == handling(op, "returned")

isLeapYear(y) == (y % 4 = 0 /\ y % 100 # 0) \/ y % 400 = 0

daysInMonth(y, m) ==
  IF m = 2 THEN (IF isLeapYear(y) THEN 29 ELSE 28)
  ELSE IF m \in {4, 6, 9, 11} THEN 30
  ELSE 31

\* the calendar day after date
nextDay(date) ==
  IF date[3] < daysInMonth(date[1], date[2]) THEN << date[1], date[2], date[3] + 1 >>
  ELSE IF date[2] < 12 THEN << date[1], date[2] + 1, 1 >>
  ELSE << date[1] + 1, 1, 1 >>

\* C17: the date key of a generatedAt whose UTC time is 15:00 or later is the
\* next UTC calendar day, that of an earlier time the same UTC day, across
\* the ends of months and years too
C17_DateKeyShiftsAtFifteen ==
  returned("kstDateKey") =>
    LET at == Val(req).args.generatedAt
    IN  Val(Val(req).result) = (IF at.hour >= 15 THEN nextDay(at.date) ELSE at.date)

\* 2024-01-01T16:00Z was keyed 2024-01-02
C17_Witness ==
  /\ returned("kstDateKey")
  /\ Val(req).args.generatedAt = [date |-> << 2024, 1, 1 >>, hour |-> 16, minute |-> 0]
  /\ Val(Val(req).result) = << 2024, 1, 2 >>

\* 2024-12-31T15:00Z was keyed 2025-01-01
C17_WitnessYearEnd ==
  /\ returned("kstDateKey")
  /\ Val(req).args.generatedAt = [date |-> << 2024, 12, 31 >>, hour |-> 15, minute |-> 0]
  /\ Val(Val(req).result) = << 2025, 1, 1 >>

\* the vote count likeRatio reads from a field: null counts as 0
votesOf(v) == IF v = None THEN 0 ELSE Val(v)

\* C18: likeRatio is null when upVotes + downVotes is 0, missing counts
\* included; otherwise it is upVotes / (upVotes + downVotes) rounded to the
\* nearest millionth, and lies in [0, 1]
C18_LikeRatioRounded ==
  returned("likeRatio") =>
    LET up == votesOf(Val(req).args.up)
        total == up + votesOf(Val(req).args.down)
        ratio == Val(Val(req).result)
    IN  IF total = 0 THEN ratio = None
        ELSE /\ ratio # None
             /\ 0 <= Val(ratio) /\ Val(ratio) <= 1000000
             /\ 2 * (Val(ratio) * total - up * 1000000) <= total
             /\ 2 * (up * 1000000 - Val(ratio) * total) <= total

\* 2 up and 1 down gave 0.666667
C18_Witness ==
  /\ returned("likeRatio")
  /\ Val(req).args = [up |-> Some(2), down |-> Some(1)]
  /\ Val(Val(req).result) = Some(666667)

\* no vote data gave null
C18_WitnessMissing ==
  /\ returned("likeRatio")
  /\ Val(req).args = [up |-> None, down |-> None]
  /\ Val(Val(req).result) = None

\* a value as validateAiPayload finds it in a parsed payload: a null field
\* is no string
asParsed(v) == IF v = None THEN None ELSE Some(v)

\* the article as validateAiPayload would read it
parsedArticle(a) ==
  [f \in DOMAIN a |->
     IF f = "sections"
     THEN Some([i \in 1..Len(a.sections) |->
                  [heading |-> asParsed(a.sections[i].heading),
                   text |-> asParsed(a.sections[i].text)]])
     ELSE IF f = "universeId" THEN Some([t |-> "num", n |-> a.universeId])
     ELSE asParsed(a[f])]

\* the description is absent: null, or the empty string
absentDescription(g) == g.description = None \/ g.description = Some(Text("desc", 0, FALSE))

\* C20: the fallback article of every game, one without description and
\* with null metrics included, passes the shape checks validateAiPayload
\* makes on an AI article, and its deck, lede and first section text are the
\* placeholder when the description is absent
C20_FallbackArticleIsValid ==
  returned("fallbackArticle") =>
    LET g == Val(req).args.g
        a == Val(Val(req).result)
    IN  /\ articleOk(parsedArticle(a))
        /\ Len(a.sections) >= 3 /\ Len(a.sections) <= 4
        /\ absentDescription(g) =>
             /\ a.deck = NoDescription
             /\ a.lede = NoDescription
             /\ a.sections[1].text = NoDescription

\* the fallback article of a game with no description and null metrics
C20_Witness ==
  /\ returned("fallbackArticle")
  /\ Val(req).args.g.description = None
  /\ Val(req).args.g.playing = None
  /\ Val(req).args.g.likeRatio = None
  /\ Val(Val(req).result).deck = NoDescription

(* ------------------------------------------------------------------ *)
(* More properties of generateSnapshot (SpecGen)                       *)
(* ------------------------------------------------------------------ *)

\* generateSnapshot of frame r returned
generated(r) == run[r].scope = "gen" /\ run[r].pc = "returned"

\* the text of the AI response is empty, is no JSON, or is JSON without an
\* articles array
unusableText(raw) ==
  CASE raw.kind = "empty" -> TRUE
    [] raw.kind = "garbage" -> TRUE
    [] OTHER -> "articles" \notin DOMAIN raw.json

\* C21: when the text of the AI response is empty, is no JSON, or parses to
\* an object without an articles array, summarizeTop5WithOpenAI returns null
\* and generateSnapshot still returns a snapshot: the fallback article of
\* every top-5 game, and no headlines
C21_UnusableTextFallsBack ==
  \A r \in Frames :
    (generated(r) /\ unusableText(run[r].raw)) =>
      /\ run[r].aiRaw = None
      /\ run[r].snap # None
      /\ Val(run[r].snap).headlines = << >>
      /\ Len(Val(run[r].snap).articles) = Len(run[r].top5)
      /\ \A i \in 1..Len(run[r].top5) :
           Val(run[r].snap).articles[i]
             = withPlaceId(fallbackArticle(run[r].top5[i]), run[r].top5[i])

\* the response was JSON with headlines and no articles, about two games
C21_Witness ==
  \E r \in Frames :
    /\ generated(r)
    /\ run[r].raw.kind = "json"
    /\ "articles" \notin DOMAIN run[r].raw.json
    /\ Val(run[r].raw.json.headlines) # << >>
    /\ Len(run[r].top5) = 2
    /\ allFallback(Val(run[r].snap))

\* the response had no text at all
C21_WitnessEmpty ==
  \E r \in Frames :
    generated(r) /\ run[r].raw.kind = "empty" /\ Len(run[r].top5) >= 1

\* the response text was no JSON
C21_WitnessGarbage ==
  \E r \in Frames :
    generated(r) /\ run[r].raw.kind = "garbage" /\ Len(run[r].top5) >= 1

(* ------------------------------------------------------------------ *)
(* findSortWithItems on long category lists (SpecSortCap)              *)
(* ------------------------------------------------------------------ *)

MaxExtraSorts == 3

\* how many categories a get-sorts answer lists: one, and around the limit
LongListLengths == {1, SORT_LIMIT - 1, SORT_LIMIT, SORT_LIMIT + 1, SORT_LIMIT + MaxExtraSorts}

\* the category at position i of a long list: all alike, the name classes in
\* turn, or every fifth one the filters entry and every seventh one without id
LongListCat(pattern, i) ==
  CASE pattern = "alike" -> Cat("s4", "Action")
    [] pattern = "classes" ->
         (IF i % 3 = 0 THEN Cat("s1", "Popular")
          ELSE IF i % 3 = 1 THEN Cat("s2", "Trending")
          ELSE Cat("s4", "Action"))
    [] OTHER ->
         (IF i % 5 = 0 THEN Cat("Filters", "Popular")
          ELSE IF i % 7 = 0 THEN [name |-> Some("Popular")]
          ELSE Cat("s3", "Top Rated"))

LongSortsAnswers ==
  {Json([sorts |-> Some([i \in 1..n |-> LongListCat(pattern, i)])]) :
     n \in LongListLengths, pattern \in {"alike", "classes", "mixed"}}

\* a content call fails, answers without games, or answers with one game
CapContentAnswers ==
  {HttpFail, Json([items |-> Some(<< >>)]), Json([items |-> Some(<< ItemA(1) >>)])}

InitSortCap ==
  /\ QuietProcess
  /\ run = [r \in Frames |->
              IF r = 1 THEN [IdleFrame EXCEPT !.scope = "sort", !.pc = "sorts", !.calls.sorts = 1]
              ELSE IdleFrame]

NextSortCap ==
  \/ \E r \in Frames, res \in LongSortsAnswers : GetSortsResponse(r, res)
  \/ \E r \in Frames, res \in CapContentAnswers : ContentResponse(r, res)

SpecSortCap == InitSortCap /\ [][NextSortCap]_vars

\* C22: one findSortWithItems call issues at most 30 get-sort-content calls,
\* however many categories get-sorts lists and however many of the content
\* calls fail or come back empty
C22_AtMostThirtyContentCalls ==
  \A r \in Frames :
    /\ run[r].calls.content <= 30
    /\ Len(run[r].tried) <= 30

\* a list of more than 30 categories whose content calls all failed or were
\* empty: null is returned after 30 calls
C22_Witness ==
  \E r \in Frames :
    /\ run[r].pc = "returned"
    /\ run[r].picked = None
    /\ Len(run[r].sorts) > 30
    /\ run[r].calls.content = 30
    /\ \A i \in 1..Len(run[r].tried) : ~run[r].tried[i].usable

(* ------------------------------------------------------------------ *)
(* enrichCandidates on long id lists (SpecBatch)                       *)
(* ------------------------------------------------------------------ *)

MaxExtraIds == 1

\* how many candidates the call gets: none, one, and around one and two
\* full batches
BatchLengths ==
  {0, 1, ROBLOX_BATCH_LIMIT - 1, ROBLOX_BATCH_LIMIT, ROBLOX_BATCH_LIMIT + 1,
   2 * ROBLOX_BATCH_LIMIT, 2 * ROBLOX_BATCH_LIMIT + MaxExtraIds}

\* the candidates of the games 1..n
CandidatesUpTo(n) == topCandidatesOf([i \in 1..n |-> ItemA(i)])

\* enrichCandidates(cands, {favConcurrency: 1}) has been called
InitBatch ==
  /\ QuietProcess
  /\ \E n \in BatchLengths :
       run = [r \in Frames |->
                IF r = 1
                THEN withEnrich([IdleFrame EXCEPT !.scope = "enrich"], CandidatesUpTo(n), 1, "alone")
                ELSE IdleFrame]

NextBatch ==
  \/ \E r \in Frames :
       /\ run[r].en.dState = "wait"
       /\ \E res \in PipeBatchAnswers(detailsAsked(run[r].en)) : DetailsResponse(r, res)
  \/ \E r \in Frames :
       /\ run[r].en.vState = "wait"
       /\ \E res \in PipeBatchAnswers(votesAsked(run[r].en)) : VotesResponse(r, res)
  \/ \E r \in Frames, pos \in 1..(2 * ROBLOX_BATCH_LIMIT + MaxExtraIds) :
       FavResponse(r, pos, Json([favoritesCount |-> Some(40)]))
  \/ \E r \in Frames : EnrichReturn(r)

SpecBatch == InitBatch /\ [][NextBatch]_vars

RECURSIVE concatenated(_)
concatenated(lists) ==
  IF lists = << >> THEN << >> ELSE lists[1] \o concatenated(Tail(lists))

\* the id lists of the first count requests of a lookup of frame r
sentChunks(r, count) == [i \in 1..count |-> enrichChunks(run[r].en)[i]]

\* the ids enrichCandidates of frame r was called with
inputIds(r) == universeIdsOf(run[r].en.cands)

\* ceil(n / 25)
batchesFor(n) == (n + 24) \div 25

\* the requests of a lookup so far carry at most 25 ids each and, taken in
\* order, the ids of the input list from its start on, none dropped or
\* repeated
sentInOrder(r, count) ==
  /\ \A i \in 1..count : Len(sentChunks(r, count)[i]) <= 25
  /\ \A i \in 1..count : Len(sentChunks(r, count)[i]) >= 1
  /\ concatenated(sentChunks(r, count))
       = SubSeq(inputIds(r), 1, Min(25 * count, Len(inputIds(r))))

\* C23 as stated: for an id list of length N the detail lookup and the vote
\* lookup each issue ceil(N/25) calls, whatever the calls answer
C23_AlwaysAllBatches ==
  \A r \in Frames :
    (run[r].scope = "enrich" /\ run[r].en.phase = "alone") =>
      /\ run[r].en.dState # "wait" => run[r].calls.details = batchesFor(Len(inputIds(r)))
      /\ run[r].en.vState # "wait" => run[r].calls.votes = batchesFor(Len(inputIds(r)))

\* C23 amended: a lookup none of whose calls fails issues ceil(N/25) calls
\* whose id lists, of at most 25 ids each, concatenate in order to the input
\* list; a lookup stops at its first failed call, having sent the input list
\* in order up to that call
C23_BatchesOfTwentyFive ==
  \A r \in Frames :
    (run[r].scope = "enrich" /\ run[r].en.phase = "alone") =>
      /\ sentInOrder(r, run[r].calls.details)
      /\ sentInOrder(r, run[r].calls.votes)
      /\ run[r].en.dState = "done" =>
           /\ run[r].calls.details = batchesFor(Len(inputIds(r)))
           /\ concatenated(sentChunks(r, run[r].calls.details)) = inputIds(r)
      /\ run[r].en.vState = "done" =>
           /\ run[r].calls.votes = batchesFor(Len(inputIds(r)))
           /\ concatenated(sentChunks(r, run[r].calls.votes)) = inputIds(r)
      /\ run[r].en.dState = "failed" => run[r].calls.details = run[r].en.dChunk
      /\ run[r].en.vState = "failed" => run[r].calls.votes = run[r].en.vChunk

\* 51 ids went out in three detail calls and three vote calls
C23_Witness ==
  \E r \in Frames :
    /\ run[r].scope = "enrich"
    /\ Len(inputIds(r)) = 51
    /\ run[r].en.dState = "done" /\ run[r].en.vState = "done"
    /\ run[r].calls.details = 3 /\ run[r].calls.votes = 3
    /\ Len(sentChunks(r, 3)[3]) = 1

\* the second of three detail calls failed and no third one was made
C23_WitnessFailed ==
  \E r \in Frames :
    /\ run[r].scope = "enrich"
    /\ Len(inputIds(r)) = 51
    /\ run[r].en.dState = "failed"
    /\ run[r].calls.details = 2
    /\ run[r].en.fly = {}

(* ------------------------------------------------------------------ *)
(* Two refresh runs in flight at once (SpecOverlap)                    *)
(* ------------------------------------------------------------------ *)

\* the enriched list of a run that found game id on top
OverlapTop(id) ==
  enrichAll(topCandidatesOf(<< ItemA(id) >>), setAll(EmptyMap, << DetailOf(id) >>),
            setAll(EmptyMap, << VoteOf(id) >>), MapSet(EmptyMap, id, Some(30)))

\* a run of refreshSnapshot that awaits its AI request
AwaitingAi(top, before) ==
  [IdleFrame EXCEPT !.pc = "ai", !.picked = Some([sortId |-> "s1", sortName |-> "Popular"]),
                    !.top5 = top, !.top100 = top, !.calls.ai = 1,
                    !.atStart = Some([disk |-> before, cachedSnapshot |-> None,
                                      lastUpdated |-> None])]

\* the run of the tick before (frame 1) still awaits its AI request when the
\* run of this tick (frame 2) has reached its own
InitOverlap ==
  /\ cachedSnapshot = None
  /\ lastUpdated = None
  /\ lastError = None
  /\ disk \in PriorDisks
  /\ dirExists = (disk # EmptyDisk)
  /\ clock \in TickTimes
  /\ booted = TRUE
  /\ cronRegistered = TRUE
  /\ thumbCache = EmptyMap
  /\ req = None
  /\ \E first \in {1, 2}, second \in {1, 2} :
       run = [r \in Frames |->
                IF r = 1 THEN AwaitingAi(OverlapTop(first), disk)
                ELSE AwaitingAi(OverlapTop(second), disk)]

NextOverlap ==
  \/ \E r \in Frames :
       /\ run[r].pc = "ai"
       /\ \E out \in PipeAiOutcomes : AiResponse(r, out)
  \/ \E r \in Frames, ok \in BOOLEAN : MkdirResult(r, ok)
  \/ \E r \in Frames, outcome \in WriteOutcomes : WriteDatedResult(r, outcome)
  \/ \E r \in Frames, outcome \in WriteOutcomes : WriteLatestResult(r, outcome)

SpecOverlap == InitOverlap /\ [][NextOverlap]_vars

\* both runs are over and each made its two writes
bothSaved ==
  \A r \in Frames : run[r].pc = "done" /\ run[r].events = {} /\ run[r].snap # None

\* the content a run's write leaves in a file
savedBy(r) == [complete |-> TRUE, json |-> Val(run[r].snap)]

\* C24: no order is kept between the writes of two runs in flight at once:
\* when both have made their writes, latest.json and the dated file of the
\* day each hold what one of the two runs wrote, and which run that is may
\* differ between the two files, so latest.json may hold the snapshot of the
\* run that started first while the dated file holds the other's
C24_WritesUnordered ==
  bothSaved =>
    /\ LatestPath \in DOMAIN disk
    /\ disk[LatestPath] \in {savedBy(1), savedBy(2)}
    /\ \E p \in DOMAIN disk : fileOfDay(p, clock)
    /\ \A p \in DOMAIN disk : fileOfDay(p, clock) => disk[p] \in {savedBy(1), savedBy(2)}
    /\ cachedSnapshot \in {run[1].snap, run[2].snap}

\* latest.json holds the snapshot of the run that started first, the dated
\* file of the same day the other run's
C24_Witness ==
  /\ bothSaved
  /\ run[1].snap # run[2].snap
  /\ disk[LatestPath] = savedBy(1)
  /\ \E p \in DOMAIN disk : fileOfDay(p, clock) /\ disk[p] = savedBy(2)

(* ------------------------------------------------------------------ *)
(* fetchFavoritesCounts to its end (SpecFavorites)                     *)
(* ------------------------------------------------------------------ *)

\* the workers of the favorites lookup of an enrichCandidates call
NextFavorites ==
  \E r \in Frames, pos \in 1..MaxCands, res \in FavAnswers : FavResponse(r, pos, res)

\* every favorites request in flight is answered in the end
SpecFavorites == InitEnrich /\ [][NextFavorites]_vars /\ WF_vars(NextFavorites)

\* the positions of the id list whose request was answered
favAnswered(en) == (1..en.favI) \ en.fly

\* the favorites lookup of frame r so far: the positions handed out are the
\* first favI, each in flight or answered, and the map holds exactly the ids
\* of the answered positions; once no request is in flight every position
\* was handed out, the map has an entry for every input id, and an id all of
\* whose requests failed holds null
favoritesSound(r) ==
  LET en == run[r].en
      ids == universeIdsOf(en.cands)
  IN  /\ en.favI <= Len(ids)
      /\ en.fly \subseteq 1..en.favI
      /\ en.favThrown \subseteq favAnswered(en)
      /\ DOMAIN en.favMap = {ids[pos] : pos \in favAnswered(en)}
      /\ en.fly = {} =>
           /\ en.favI = Len(ids)
           /\ DOMAIN en.favMap = {ids[pos] : pos \in 1..Len(ids)}
           /\ \A i \in 1..Len(ids) : favAlwaysThrew(en, i) => en.favMap[ids[i]] = None

\* a step hands out no position but the next one of the shared index, to the
\* worker whose request was answered
favoritesInTurn(r) ==
  LET en == run[r].en
      en2 == run'[r].en
  IN  /\ en2.favI \in {en.favI, en.favI + 1}
      /\ en2.fly \ en.fly = (IF en2.favI = en.favI THEN {} ELSE {en2.favI})
      /\ Cardinality(en.fly \ en2.fly) <= 1

\* C25: fetchFavoritesCounts issues one favorites call for each position of
\* the id list, in turn, none passed over and none issued twice; whichever
\* calls fail it comes to an end, with a map that has an entry for every
\* input id, null for each id whose calls failed
C25_FavoritesOncePerPosition ==
  /\ [](\A r \in Frames : run[r].scope = "enrich" => favoritesSound(r))
  /\ [][\A r \in Frames : favoritesInTurn(r)]_vars
  /\ <>(\A r \in Frames : run[r].en.fly = {})

\* the lookup of three positions ended with two workers: the id whose only
\* call failed holds null, the other one its count
C25_Witness ==
  \E r \in Frames :
    /\ run[r].scope = "enrich"
    /\ run[r].en.conc = 2
    /\ Len(run[r].en.cands) = 3
    /\ run[r].en.fly = {}
    /\ run[r].calls.favs = 3
    /\ run[r].en.favThrown # {}
    /\ \E id \in DOMAIN run[r].en.favMap : run[r].en.favMap[id] = None
    /\ \E id \in DOMAIN run[r].en.favMap : run[r].en.favMap[id] = Some(40)

(* ------------------------------------------------------------------ *)
(* The boot run and the weekly schedule (Spec)                         *)
(* ------------------------------------------------------------------ *)

\* no tick has fired yet: the run of frame 1, if any, is the boot run
beforeFirstTick == clock = BootTime

\* the boot run has ended
bootRunOver == booted /\ beforeFirstTick /\ run[1].pc = "done"

\* what went wrong in the run of frame r, a swallowed favorites failure aside
failuresOf(r) == run[r].events \ {"favorites"}

\* C26: the schedule is registered only after the boot run has ended, with
\* every failure of it recorded in lastError, so no scheduled run starts
\* while the boot run is in flight; and once the boot run has ended, failed
\* or not, the schedule can be registered
C26_BootBeforeSchedule ==
  /\ cronRegistered => booted
  /\ (cronRegistered /\ beforeFirstTick) => run[1].pc = "done"
  /\ (booted /\ beforeFirstTick /\ run[1].pc # "done")
       => (~cronRegistered /\ ~ENABLED (\E t \in TickTimes : CronTick(t)))
  /\ bootRunOver => (failuresOf(1) # {} <=> lastError # None)
  /\ (bootRunOver /\ ~cronRegistered) => ENABLED RegisterCron

\* the boot run failed and the schedule was registered all the same
C26_Witness ==
  /\ cronRegistered
  /\ beforeFirstTick
  /\ run[1].pc = "done"
  /\ lastError # None
  /\ cachedSnapshot = None

\* a scheduled run started after a failed boot run
C26_WitnessTick ==
  /\ cronRegistered
  /\ ~beforeFirstTick
  /\ Val(run[1].atStart).cachedSnapshot = None
  /\ run[1].pc = "ai"

(* ------------------------------------------------------------------ *)
(* Thumbnail requests in flight at once (SpecThumbsPair)               *)
(* ------------------------------------------------------------------ *)

MaxOverlap == 2

\* the thumbnail handlers started so far, in order of arrival; log is
\* history: the arrivals and answers in the order they happened; before is
\* the cache when the first request arrived
Handlers(hs, log, before) ==
  [op |-> "thumbsPair", pc |-> "open", hs |-> hs, log |-> log, before |-> before]

\* a GET /api/thumbnails request arrives, others being in flight or answered
PairRequest(query, elapsed) ==
  /\ IF req = None THEN TRUE ELSE handling("thumbsPair", "open")
  /\ IF req = None THEN TRUE ELSE Len(Val(req).hs) < MaxOverlap
  /\ clock' = clock + elapsed
  /\ LET hs == IF req = None THEN << >> ELSE Val(req).hs
         log == IF req = None THEN << >> ELSE Val(req).log
         before == IF req = None THEN thumbCache ELSE Val(req).before
         n == Len(hs) + 1
         h == [Handler("thumbs", "arrived") EXCEPT !.n = n, !.query = query, !.now = clock']
     IN  req' = Some(Handlers(Append(hs, thumbsArrived(h, thumbCache)),
                              Append(log, [ev |-> "arrived", n |-> n]), before))
  /\ UNCHANGED << refresher, disk, dirExists, thumbCache >>

\* the upstream fetch of request n settled
PairUpstreamResult(n, answer) ==
  /\ handling("thumbsPair", "open")
  /\ n \in 1..Len(Val(req).hs)
  /\ Val(req).hs[n].pc = "fetch"
  /\ LET settled == thumbsSettled(Val(req).hs[n], answer, thumbCache)
     IN  /\ req' = Some([Val(req) EXCEPT !.hs[n] = settled.h,
                                         !.log = Append(@, [ev |-> "answered", n |-> n])])
         /\ thumbCache' = settled.cache
  /\ UNCHANGED << refresher, disk, dirExists, clock >>

\* an entry an earlier request left, expired by the time the process is
\* looked at
StaleEntry == [expiresAt |-> BootTime - 1, payload |-> ThumbPayload("old")]

PairAnswers == {Resolved(HttpFail), Resolved(Json(ThumbPayload("a"))), Resolved(Json(ThumbPayload("b")))}

PairQueries == {Some(QueryText("1,2", 0)), Some(QueryText("1,2", 2)), Some(QueryText("3", 0))}

InitThumbsPair ==
  /\ cachedSnapshot = None
  /\ lastUpdated = None
  /\ lastError = None
  /\ disk = EmptyDisk
  /\ dirExists = FALSE
  /\ clock = BootTime
  /\ booted = FALSE
  /\ cronRegistered = FALSE
  /\ run = [r \in Frames |-> IdleFrame]
  /\ thumbCache \in {EmptyMap, MapSet(EmptyMap, QueryText("1,2", 0), StaleEntry)}
  /\ req = None

NextThumbsPair ==
  \/ \E query \in PairQueries, elapsed \in {0, 10} : PairRequest(query, elapsed)
  \/ \E n \in 1..MaxOverlap, answer \in PairAnswers : PairUpstreamResult(n, answer)

SpecThumbsPair == InitThumbsPair /\ [][NextThumbsPair]_vars

\* the place of the event in the log, 0 when it has not happened
RECURSIVE logIndex(_, _, _)
logIndex(log, e, i) ==
  IF i > Len(log) THEN 0
  ELSE IF log[i] = e THEN i
  ELSE logIndex(log, e, i + 1)

happened(ev, n) == logIndex(Val(req).log, [ev |-> ev, n |-> n], 1)

\* requests 1 and 2 asked for the same id list, neither found a fresh entry,
\* request 2 arrived while the upstream call of request 1 was in flight, and
\* both have been answered
overlapped ==
  /\ handling("thumbsPair", "open")
  /\ Len(Val(req).hs) = 2
  /\ Val(req).hs[1].key = Val(req).hs[2].key
  /\ happened("answered", 1) > 0 /\ happened("answered", 2) > 0
  /\ happened("arrived", 2) < happened("answered", 1)

\* the entry request n stored
entryOf(n) ==
  [expiresAt |-> Val(req).hs[n].now + THUMB_TTL_MS, payload |-> Val(Val(req).hs[n].answer).res.json]

\* C27: when two requests for the same uncached or expired id list overlap,
\* each makes its own upstream call, and the cache ends up with the payload
\* and expiry of the request answered last; when that one's upstream call
\* failed it wrote nothing, and the entry is the other one's, or the one
\* there was before when both failed
C27_LastAnswerWins ==
  overlapped =>
    LET hs == Val(req).hs
        key == Val(hs[1].key)
        last == IF happened("answered", 1) > happened("answered", 2) THEN 1 ELSE 2
        other == 3 - last
        before == Val(req).before
    IN  /\ hs[1].calls = 1 /\ hs[2].calls = 1
        /\ hs[1].answer # None /\ hs[2].answer # None
        /\ IF hs[last].status = 200 THEN thumbCache[key] = entryOf(last)
           ELSE IF hs[other].status = 200 THEN thumbCache[key] = entryOf(other)
           ELSE /\ (key \in DOMAIN before) = (key \in DOMAIN thumbCache)
                /\ key \in DOMAIN before => thumbCache[key] = before[key]

\* the request that arrived first was answered last: the cache holds its
\* payload and its expiry, earlier than the one the other request had stored
C27_Witness ==
  /\ overlapped
  /\ happened("answered", 1) > happened("answered", 2)
  /\ Val(req).hs[1].status = 200 /\ Val(req).hs[2].status = 200
  /\ Val(req).hs[1].now < Val(req).hs[2].now
  /\ Val(req).hs[1].body # Val(req).hs[2].body
  /\ thumbCache[Val(Val(req).hs[1].key)].payload = Val(Val(req).hs[1].body)
  /\ thumbCache[Val(Val(req).hs[1].key)].expiresAt = Val(req).hs[1].now + THUMB_TTL_MS

(* ------------------------------------------------------------------ *)
(* Failed thumbnail requests and the cache (SpecThumbs)                *)
(* ------------------------------------------------------------------ *)

\* this step sends the answer of a thumbnail request
answering == thumbsSent' /\ (req = None \/ ~thumbsSent \/ Val(req').n # Val(req).n)

\* C28: the step that answers a thumbnail request with 400 or 502 leaves
\* thumbCache as it was, so a failed upstream call adds no entry for its key
\* and neither deletes nor refreshes an expired one; and no step of any
\* request removes a key from the cache
C28_FailureLeavesCache ==
  [][ /\ (answering /\ Val(req').status \in {400, 502}) => thumbCache' = thumbCache
      /\ DOMAIN thumbCache \subseteq DOMAIN thumbCache' ]_vars

\* a request found an expired entry for its key, its upstream call failed,
\* and the expired entry is still the one stored
C28_Witness ==
  /\ thumbsSent
  /\ Val(req).status = 502
  /\ upstreamFailed
  /\ arrivedExpired
  /\ storedEntry = foundEntry

\* a failed request for a key that was never stored: still no entry for it
C28_WitnessNoEntry ==
  /\ thumbsSent
  /\ Val(req).status = 502
  /\ Val(req).cached = None
  /\ Val(Val(req).key) \notin DOMAIN thumbCache
  /\ thumbCache # EmptyMap

(* ------------------------------------------------------------------ *)
(* The sizes of the lists of a snapshot (SpecCaps)                     *)
(* ------------------------------------------------------------------ *)

MaxExtraGames == 1

\* how many games the content answer lists: one, and around the limits of
\* the two lists
CapLengths == {1, TOP5_N, TOP5_N + 1, TOP100_N, TOP100_N + MaxExtraGames}

\* item i of n: the ids run down from n, and in the "gaps" pattern every
\* third item has no id at all
CapItem(pattern, n, i) ==
  IF pattern = "gaps" /\ i % 3 = 0 THEN ItemNoId ELSE ItemA(n + 1 - i)

CapItemsAnswers ==
  {Json([items |-> Some([i \in 1..n |-> CapItem(pattern, n, i)])]) :
     n \in CapLengths, pattern \in {"plain", "gaps"}}

\* the AI answers nothing, or one valid article for each game asked about:
\* in the reverse of the order asked, or with the ids as strings
CapAiOutcomes(top5) ==
  {Resolved(EmptyObject),
   Resolved([output_text |-> Some(RawText("json",
      [articles |-> Some(Reverse([i \in 1..Len(top5) |-> GoodArticle(Num(top5[i].universeId), 3)]))]))]),
   Resolved([output_text |-> Some(RawText("json",
      [articles |-> Some([i \in 1..Len(top5) |-> GoodArticle(Str(top5[i].universeId), 4)])]))])}

\* refreshSnapshot runs generateSnapshot, which awaits the content of the
\* first category
InitCaps ==
  /\ QuietProcess
  /\ run = [r \in Frames |->
              IF r = 1
              THEN [IdleFrame EXCEPT !.pc = "content", !.candidates = << Cat("s1", "Popular") >>,
                                     !.k = 1, !.calls.sorts = 1, !.calls.content = 1]
              ELSE IdleFrame]

\* the favorites answers come back in the order of the requests
NextCaps ==
  \/ \E r \in Frames, res \in CapItemsAnswers : ContentResponse(r, res)
  \/ \E r \in Frames :
       /\ run[r].en.dState = "wait"
       /\ \E res \in PipeBatchAnswers(detailsAsked(run[r].en)) : DetailsResponse(r, res)
  \/ \E r \in Frames :
       /\ run[r].en.vState = "wait"
       /\ VotesResponse(r, Json([data |-> Some(votesAsked(run[r].en))]))
  \/ \E r \in Frames, pos \in 1..(TOP100_N + MaxExtraGames) :
       /\ pos \in run[r].en.fly
       /\ \A q \in run[r].en.fly : pos <= q
       /\ FavResponse(r, pos, Json([favoritesCount |-> Some(40)]))
  \/ \E r \in Frames : EnrichReturn(r)
  \/ \E r \in Frames :
       /\ run[r].pc = "ai"
       /\ \E out \in CapAiOutcomes(run[r].top5) : AiResponse(r, out)

SpecCaps == InitCaps /\ [][NextCaps]_vars

\* C29: in every snapshot generateSnapshot returns, articles is as long as
\* top5, and article i carries the universeId and the placeId of game i of
\* top5, be it an AI article or a fallback article; top5 has at most 5
\* games, top100 at most 100, and the universeIds of top5 are the first
\* universeIds of top100
C29_ArticlesFollowTop5 ==
  \A r \in Frames :
    run[r].snap # None =>
      LET s == Val(run[r].snap)
      IN  /\ Len(s.articles) = Len(s.top5)
          /\ \A i \in 1..Len(s.top5) :
               /\ s.articles[i].universeId = s.top5[i].universeId
               /\ "placeId" \in DOMAIN s.articles[i]
               /\ s.articles[i].placeId = s.top5[i].placeId
          /\ Len(s.top5) <= 5
          /\ Len(s.top100) <= 100
          /\ Len(s.top5) <= Len(s.top100)
          /\ \A i \in 1..Len(s.top5) : s.top5[i].universeId = s.top100[i].universeId

\* more than 100 games were listed (the first id is greater than the number
\* of games kept), both lists are full, and the articles are the AI's
C29_Witness ==
  \E r \in Frames :
    /\ run[r].snap # None
    /\ LET s == Val(run[r].snap)
       IN  /\ Len(s.top100) = TOP100_N
           /\ s.top100[1].universeId > TOP100_N
           /\ Len(s.top5) = TOP5_N
           /\ s.top5[1].placeId # None
           /\ \A i \in 1..TOP5_N :
                s.articles[i] # withPlaceId(fallbackArticle(s.top5[i]), s.top5[i])

\* the same lists with the fallback articles
C29_WitnessFallback ==
  \E r \in Frames :
    /\ run[r].snap # None
    /\ LET s == Val(run[r].snap)
       IN  /\ Len(s.top100) = TOP100_N
           /\ s.top100[1].universeId > TOP100_N
           /\ Len(s.top5) = TOP5_N
           /\ \A i \in 1..TOP5_N :
                s.articles[i] = withPlaceId(fallbackArticle(s.top5[i]), s.top5[i])

(* ------------------------------------------------------------------ *)
(* Refresh runs followed by GET /api/snapshot/latest (SpecServe)       *)
(* ------------------------------------------------------------------ *)

\* the enriched list of one game with the given favorites count
ServeTop(id, fav) ==
  enrichAll(topCandidatesOf(<< ItemA(id) >>), setAll(EmptyMap, << DetailOf(id) >>),
            setAll(EmptyMap, << VoteOf(id) >>), MapSet(EmptyMap, id, Some(fav)))

ServeTops == {ServeTop(1, 30), ServeTop(1, 45), ServeTop(2, 30)}

\* the time between the AI requests of two runs: the clock set back by a
\* day or by ten minutes, ten minutes, a day, a week
ServeElapsed == {0 - DayMinutes, 0 - 10, 10, DayMinutes, 7 * DayMinutes}

allRunsOver == \A r \in Frames : run[r].pc \in {"idle", "done"}

\* the first run of the process awaits its AI request
InitServe ==
  /\ cachedSnapshot = None
  /\ lastUpdated = None
  /\ lastError = None
  /\ disk \in PriorDisks
  /\ dirExists = (disk # EmptyDisk)
  /\ clock = BootTime
  /\ booted = TRUE
  /\ cronRegistered = TRUE
  /\ thumbCache = EmptyMap
  /\ req = None
  /\ \E top \in ServeTops :
       run = [r \in Frames |-> IF r = 1 THEN AwaitingAi(top, disk) ELSE IdleFrame]

\* refreshSnapshot is called again when the run before is over and no
\* request is being served, and runs to its AI request
NextRunAwaitsAi(r, top, elapsed) ==
  /\ allRunsOver
  /\ r > 1 /\ run[r].pc = "idle" /\ run[r - 1].pc = "done"
  /\ IF req = None THEN TRUE ELSE Val(req).pc = "sent"
  /\ clock' = clock + elapsed
  /\ lastError' = None
  /\ run' = [run EXCEPT ![r] = AwaitingAi(top, disk)]
  /\ req' = None
  /\ UNCHANGED << cachedSnapshot, lastUpdated, disk, dirExists, booted, cronRegistered, thumbCache >>

\* GET /api/snapshot/latest is received when no run is in flight
LatestRequest ==
  /\ allRunsOver
  /\ req = None
  /\ req' = Some(Handler("latest", "readdir"))
  /\ UNCHANGED << refresher, disk, dirExists, clock, thumbCache >>

NextServe ==
  \/ \E r \in Frames :
       /\ run[r].pc = "ai"
       /\ \E out \in PipeAiOutcomes : AiResponse(r, out)
  \/ \E r \in Frames : MkdirResult(r, TRUE)
  \/ \E r \in Frames : WriteDatedResult(r, "written")
  \/ \E r \in Frames : WriteLatestResult(r, "written")
  \/ \E r \in Frames, top \in ServeTops, elapsed \in ServeElapsed : NextRunAwaitsAi(r, top, elapsed)
  \/ LatestRequest
  \/ ReaddirResult
  \/ \E readOk \in BOOLEAN : ReadLatestResult(readOk)
  \/ \E readOk \in BOOLEAN : ReadPrevResult(readOk)

SpecServe == InitServe /\ [][NextServe]_vars

\* the dated files of the directory
datedFiles(d) == {path \in DOMAIN d : isSnapshotName(path)}

\* the dated file with the greatest date key
greatestDated(files) == CHOOSE p \in files : \A q \in files \ {p} : nameBefore(q, p)

\* the content of the dated file with the second-greatest key, if any
secondGreatest(d) ==
  LET rest == datedFiles(d) \ {greatestDated(datedFiles(d))}
  IN  IF rest = {} THEN None ELSE Some(d[greatestDated(rest)].json)

\* every run that produced a snapshot made both its writes, and no
\* snapshot was generated before the snapshot of the run before or before
\* what the directory held at the start
generatedInOrder ==
  /\ \A r \in Frames : run[r].snap # None => run[r].pc = "done" /\ run[r].events = {}
  /\ \A r1 \in Frames, r2 \in Frames :
       (r1 < r2 /\ run[r1].snap # None /\ run[r2].snap # None) =>
         parseISO(Val(run[r1].snap).generatedAt) <= parseISO(Val(run[r2].snap).generatedAt)
  /\ \A r \in Frames :
       (run[r].snap # None /\ Val(run[r].atStart).disk # EmptyDisk) =>
         parseISO(OldSnapshot.generatedAt) <= parseISO(Val(run[r].snap).generatedAt)

served == handling("latest", "sent") /\ Val(req).status = 200

\* a is b with the extra field f
sameApartFrom(a, b, f) ==
  /\ DOMAIN a = (DOMAIN b) \cup {f}
  /\ \A g \in (DOMAIN b) \ {f} : a[g] = b[g]

\* the served snapshot is that of latest.json with the deltas against prev
servedFromLatest ==
  LET body == Val(Val(req).body)
      latest == disk[LatestPath].json
  IN  /\ disk[LatestPath].complete
      /\ DOMAIN body = (DOMAIN latest) \cup {"prevMeta"}
      /\ \A g \in (DOMAIN latest) \ {"top5"} : body[g] = latest[g]
      /\ Len(body.top5) = Len(latest.top5)
      /\ \A i \in 1..Len(latest.top5) : sameApartFrom(body.top5[i], latest.top5[i], "delta")
      /\ body = buildDeltaSnapshot(latest, secondGreatest(disk))

\* C30: after runs of refreshSnapshot that did not overlap, whose writes
\* succeeded and whose generatedAt values do not decrease, the snapshot
\* GET /api/snapshot/latest answers with has the content of latest.json,
\* apart from prevMeta and the delta of each top-5 game, and the deltas are
\* those against the dated file with the second-greatest date key
C30_ServedIsLatest ==
  (served /\ generatedInOrder) => (LatestPath \in DOMAIN disk /\ servedFromLatest)

\* the same without the condition on generatedAt (it fails when the clock
\* was set back across a day)
C30_ServedIsLatestAnyOrder ==
  served => (LatestPath \in DOMAIN disk /\ servedFromLatest)

\* two runs on different days after an older edition: three dated files,
\* the served snapshot is the second run's with deltas against the first's
C30_Witness ==
  /\ served
  /\ generatedInOrder
  /\ \A r \in Frames : run[r].snap # None
  /\ Cardinality(datedFiles(disk)) = 3
  /\ disk[LatestPath].json = Val(run[2].snap)
  /\ Val(Val(req).body).prevMeta # None
  /\ Val(Val(Val(req).body).prevMeta).generatedAt = Val(run[1].snap).generatedAt
  /\ Val(Val(req).body).top5[1].delta.favorites = Some(15)

\* two runs on the same day: the second overwrote the dated file of the
\* first, and the deltas are against the older edition
C30_WitnessSameDay ==
  /\ served
  /\ generatedInOrder
  /\ \A r \in Frames : run[r].snap # None
  /\ Cardinality(datedFiles(disk)) = 2
  /\ run[1].snap # run[2].snap
  /\ Val(Val(req).body).prevMeta # None
  /\ Val(Val(Val(req).body).prevMeta).generatedAt = OldSnapshot.generatedAt

====
